---- MODULE Spec2Model ----
(***************************************************************************)
(* ProCharting data pipeline: the shared ring channel (SharedDataManager), *)
(* the data worker's decimation and aggregation handlers, and the          *)
(* DataDecimator.  Memory is modelled at the granularity of one 4-byte     *)
(* float32 word; byte offsets are kept as in the source.                   *)
(***************************************************************************)
EXTENDS Integers, Sequences, FiniteSets, TLC

VARIABLES
  dataBuffer,   \* SharedDataManager.dataBuffer, one entry per float32 word
  metadata,     \* SharedDataManager.metadata (Int32Array, 4 ints per series)
  thrown,       \* error thrown by the last SharedDataManager call, or "none"
  written,      \* history: per series, the points appended since the last clear
  timestamps,   \* history: per series, the timestamps received since the last clear
  writers,      \* per execution context: position and locals of its appendData call
  reader,       \* position and locals of the reading context's getData call
  calls,        \* history: the appendData calls issued by the concurrent contexts
  clears,       \* history: number of clear calls made
  appended      \* history: per series, the number of points ever appended

ringVars == <<dataBuffer, metadata, thrown, written, timestamps, writers, reader, calls,
              clears, appended>>

VARIABLES
  input,         \* decimation: the ArrayBuffer handed in, as float32 words
  targetPoints,  \* decimation: the target point count
  algorithm,     \* decimation: the worker's algorithm selector
  decimator,     \* decimation: "worker" (handleDecimate) or "DataDecimator"
  decimated,     \* decimation: the buffers returned by the first and second pass
  aggInput,      \* aggregation: the ArrayBuffer handed in, as float32 words
  interval,      \* aggregation: the interval
  aggregated     \* aggregation: <<>> before the call, <<buffer>> after it

decVars == <<input, targetPoints, algorithm, decimator, decimated>>

aggVars == <<aggInput, interval, aggregated>>

VARIABLES
  options,            \* WebSocketClient.options: url and reconnect policy
  sockets,            \* the WebSocket objects created so far, by their state
  ws,                 \* WebSocketClient.ws: an index into sockets, or 0 for null
  reconnectTimer,     \* WebSocketClient.reconnectTimer: a timer id, or 0 for null
  timers,             \* the setTimeout timers that are pending
  reconnectAttempts,  \* WebSocketClient.reconnectAttempts
  isClosing,          \* WebSocketClient.isClosing
  messageQueue,       \* WebSocketClient.messageQueue
  sent,               \* history: the frames handed to WebSocket.send, in order
  lastEvent,          \* the event the client emitted last
  env                 \* history: calls made and failures suffered so far

wsVars == <<options, sockets, ws, reconnectTimer, timers, reconnectAttempts, isClosing,
            messageQueue, sent, lastEvent, env>>

VARIABLES
  update,      \* wire protocol: the Update message the sender encodes
  wire,        \* wire protocol: the bytes of the encoded message
  decodedMsg,  \* wire protocol: <<>> or <<the outcome of decodeMessage>>
  delivered    \* chart: the updates handed to handleRealtimeUpdate, in order

protoVars == <<update, wire, decodedMsg, delivered>>

VARIABLES
  workers,    \* per Worker of the pool: what it is doing, on which task
  available,  \* WorkerPool.available
  pending,    \* WorkerPool.pending: task id -> the execute call whose promise it settles
  nextId,     \* WorkerPool.nextId
  tasks       \* the execute calls made so far: position, worker, task id, times settled

poolVars == <<workers, available, pending, nextId, tasks>>

VARIABLES
  lastCall,   \* history: the arguments of the last checked appendData call
  waiter      \* the waitForData call: position, arguments and start values

sdmVars == <<lastCall, waiter>>

VARIABLES
  ringBuffer,  \* DataBuffer.ringBuffer: buffer, writeOffset, readOffset and size
  _length,     \* DataBuffer._length
  bufThrown,   \* error thrown by the last DataBuffer call, or "none"
  held,        \* history: the bytes appended since the last clear, in order
  reads        \* history: the results of the reads of data since the last append or clear

bufVars == <<ringBuffer, _length, bufThrown, held, reads>>

VARIABLES
  isStreaming,  \* StreamingDataSource.isStreaming
  stream,       \* options.data and options.mode, and the position of the streaming loop
  events,       \* history: the events the StreamingDataSource has emitted, in order
  stopMark      \* history: the data events and the buffer when stop() returned

streamVars == <<isStreaming, stream, events, stopMark>>

VARIABLES
  dpInput,      \* the arguments of the running douglasPeucker call
  dpStack,      \* its call stack: the segment and the position of each activation
  dpThrown      \* what the call has thrown

dpVars == <<dpInput, dpStack, dpThrown>>

VARIABLES
  compression,    \* WebSocketClient.options.compression
  received,       \* history: the number of message events dispatched so far
  decompressing,  \* the frames whose handleMessage awaits decompress
  emitted         \* history: the frames emitted as 'message', in order

msgVars == <<compression, received, decompressing, emitted>>

\* The components that are modelled further below.
moreVars == <<sdmVars, bufVars, streamVars, dpVars, msgVars>>

vars == <<ringVars, decVars, aggVars, wsVars, protoVars, poolVars, moreVars>>

nonRingVars == <<decVars, aggVars, wsVars, protoVars, poolVars, moreVars>>

nonPoolVars == <<ringVars, decVars, aggVars, wsVars, protoVars, moreVars>>

----------------------------------------------------------------------------
(* Bounds *)

maxDataPoints == 2     \* config.maxDataPoints
seriesCount == 2       \* config.seriesCount
NumVals == 2           \* distinct candle values offered to appendData
MaxWritten == maxDataPoints + 2   \* points held in the histories of all series together
MaxBatch == MaxWritten            \* longest batch passed to one appendData call
MaxClears == 1         \* clear calls in one run
MaxConcBatch == 2      \* longest batch of an appendData call that runs concurrently
MaxCalls == 2          \* appendData calls of a writer context that runs beside a reader
MaxPoints == 3         \* points in a buffer handed to the decimators
MaxX == 1              \* largest x (time) of such a point
MaxY == 1              \* largest y (value) of such a point
MaxTarget == MaxPoints \* largest target point count
MaxCandles == 3        \* candles in a buffer handed to handleAggregate
MaxTime == 1           \* largest of the small candle times
NumShapes == 2         \* distinct open/high/low/close/volume combinations
MaxInterval == 3       \* largest aggregation interval
MaxConnects == 1       \* connect() calls on one WebSocketClient that follows its policy
MaxCloses == 1         \* close() calls on one WebSocketClient
MaxSends == 2          \* send() calls on one WebSocketClient
MaxFailures == 2       \* connections lost or refused before the network is stable
MaxAttempts == 1       \* largest reconnect.attempts of a policy that sets it
BackoffFailures == 7   \* connections lost or refused in a run that follows the backoff
MaxSymbolLen == 1      \* code points in the symbol of an Update message
MaxTimestamp == 1      \* largest timestamp of an Update message
MaxMessages == 2       \* messages received on one WebSocketClient
MaxSize == 2           \* largest WorkerPool size
MaxTasks == 3          \* execute calls on one WorkerPool
MaxStaleTasks == 2     \* execute calls on a WorkerPool that is terminated or gets duplicates
MaxTimeout == 1        \* largest timeout of waitForData, in slices of Atomics.wait
MaxMinCount == 2       \* largest minCount of waitForData
capacity == 8          \* capacity of a DataBuffer, in bytes
NumBytes == 2          \* distinct byte values appended to a DataBuffer
MaxChunk == 2          \* longest ArrayBuffer appended to a DataBuffer
MaxHeld == capacity + 2   \* bytes appended to a DataBuffer between two clears
MaxReads == 2          \* reads of DataBuffer.data between two appends or clears
MaxBatches == 2        \* batches a streaming source yields
MaxDepth == MaxPoints + 1  \* activations of douglasPeucker the call stack holds
MaxTolerance == 1      \* largest tolerance handed to douglasPeucker, in halves
MaxFrames == 4         \* frames a connection receives

(* Program constants *)

pointSize == 24
FloatSize == 4
MetaInts == 4
NumFields == 9

----------------------------------------------------------------------------
(* Number conversions *)

Pow2(n) == 2 ^ n

Abs(n) == IF n < 0 THEN 0 - n ELSE n

Min(a, b) == IF a < b THEN a ELSE b

Max(a, b) == IF a > b THEN a ELSE b

\* DataView.setFloat32 on an integer-valued number: integers up to 2^24 are
\* stored exactly, larger ones are rounded to the 24-bit significand, ties to
\* even (given here for magnitudes below 2^26).
Float32(n) ==
  LET a == Abs(n)
      step == IF a <= Pow2(24) THEN 1 ELSE IF a <= Pow2(25) THEN 2 ELSE 4
      q == a \div step
      r == a % step
      up == (2 * r > step) \/ (2 * r = step /\ q % 2 = 1)
      m == IF up THEN (q + 1) * step ELSE q * step
  IN IF n < 0 THEN 0 - m ELSE m

----------------------------------------------------------------------------
(* Candles and buffers *)

Fields == <<"time", "open", "high", "low", "close", "volume">>

WordsPerPoint == pointSize \div FloatSize

Series == 0 .. seriesCount - 1

BufWords == (maxDataPoints * seriesCount * pointSize) \div FloatSize

\* A CandlestickData whose six fields all carry v.
Candle(v) == [f \in {Fields[k] : k \in 1..6} |-> v]

\* The six float32 words of a point, in the order appendData writes them.
PointWords(p) == [k \in 1..WordsPerPoint |-> Float32(p[Fields[k]])]

RECURSIVE Flatten(_)
Flatten(ps) == IF ps = <<>> THEN <<>> ELSE PointWords(Head(ps)) \o Flatten(Tail(ps))

SeqsUpTo(S, n) == UNION {[1..k -> S] : k \in 0..n}

Batches == SeqsUpTo({Candle(v) : v \in 1..NumVals}, MaxBatch)

----------------------------------------------------------------------------
(* SharedDataManager *)

SeriesOffset(seriesIndex) == seriesIndex * maxDataPoints * pointSize

MaxOffset(seriesIndex) == SeriesOffset(seriesIndex) + maxDataPoints * pointSize

\* appendData's wrap test at the top of the loop body.
WrapOffset(seriesIndex, currentOffset) ==
  IF currentOffset + pointSize > MaxOffset(seriesIndex)
  THEN SeriesOffset(seriesIndex)
  ELSE currentOffset

\* dataView.setFloat32(byteOffset, value, true)
SetFloat32(buf, byteOffset, value) ==
  [buf EXCEPT ![byteOffset \div FloatSize] = Float32(value)]

\* The six setFloat32 calls of one loop iteration.
RECURSIVE WritePoint(_, _, _, _)
WritePoint(buf, offset, point, k) ==
  IF k > WordsPerPoint THEN buf
  ELSE WritePoint(SetFloat32(buf, offset + (k - 1) * FloatSize, point[Fields[k]]),
                  offset, point, k + 1)

\* The for loop of appendData, run to completion.
RECURSIVE WriteLoop(_, _, _, _)
WriteLoop(buf, seriesIndex, currentOffset, data) ==
  IF data = <<>> THEN [buf |-> buf, currentOffset |-> currentOffset]
  ELSE LET off == WrapOffset(seriesIndex, currentOffset)
       IN WriteLoop(WritePoint(buf, off, Head(data), 1), seriesIndex,
                    off + pointSize, Tail(data))

NewDataCountUnclamped(dataCount, len) == dataCount + len

\* newDataCount = Math.min(dataCount + data.length, maxDataPoints)
NewDataCount(dataCount, len) == Min(dataCount + len, maxDataPoints)

\* appendData run without interruption on the state (buf, meta).
AppendResult(buf, meta, seriesIndex, data) ==
  LET metadataOffset == seriesIndex * MetaInts
      writeOffset == meta[metadataOffset]
      dataCount == meta[metadataOffset + 1]
      loop == WriteLoop(buf, seriesIndex, SeriesOffset(seriesIndex) + writeOffset, data)
      newWriteOffset == loop.currentOffset - SeriesOffset(seriesIndex)
      newDataCount == NewDataCount(dataCount, Len(data))
  IN [buf |-> loop.buf,
      meta |-> [meta EXCEPT ![metadataOffset] = newWriteOffset,
                            ![metadataOffset + 1] = newDataCount]]

getDataCount(seriesIndex) == metadata[seriesIndex * MetaInts + 1]

\* getData on state (buf, meta), run without interruption; the result is the
\* returned ArrayBuffer as a sequence of float32 words.
GetData(buf, meta, seriesIndex, startIndex, count) ==
  LET dataCount == meta[seriesIndex * MetaInts + 1]
      actualCount == Min(count, dataCount - startIndex)
      word(n) ==
        LET i == (n - 1) \div WordsPerPoint
            j == (n - 1) % WordsPerPoint
            pointIndex == (startIndex + i) % maxDataPoints
            sourceOffset == SeriesOffset(seriesIndex) + pointIndex * pointSize
        IN buf[(sourceOffset \div FloatSize) + j]
  IN IF startIndex >= dataCount THEN <<>>
     ELSE [n \in 1..(actualCount * WordsPerPoint) |-> word(n)]

TimesOf(data) == {data[k].time : k \in 1..Len(data)}

RECURSIVE SumLen(_, _)
SumLen(f, S) ==
  IF S = {} THEN 0
  ELSE LET s == CHOOSE x \in S : TRUE IN Len(f[s]) + SumLen(f, S \ {s})

TotalWritten == SumLen(written, Series)

IdleWriters == [w \in {} |-> 0]

IdleReader == [pc |-> "off"]

IdleWriter ==
  [pc |-> "idle", seriesIndex |-> 0, data |-> <<>>, writeOffset |-> 0,
   dataCount |-> 0, currentOffset |-> 0, i |-> 0, k |-> 0]

ReadyReader ==
  [pc |-> "idle", seriesIndex |-> 0, startIndex |-> 0, count |-> 0,
   dataCount |-> 0, actualCount |-> 0, i |-> 0, j |-> 0, result |-> <<>>]

\* Batches and the series used by calls that run concurrently.
ConcBatches == SeqsUpTo({Candle(v) : v \in 1..NumVals}, MaxConcBatch) \ {<<>>}

ConcSeries == seriesCount - 1

\* No decimation or aggregation call is part of the run.
NoDecimation ==
  /\ input = <<>>
  /\ targetPoints = 0
  /\ algorithm = "none"
  /\ decimator = "none"
  /\ decimated = <<>>

NoAggregation ==
  /\ aggInput = <<>>
  /\ interval = 1
  /\ aggregated = <<>>

Unset == 0 - 1

NoEvent == [type |-> "none", attempt |-> 0, delay |-> 0]

\* A WebSocketClient as its constructor leaves it, for the given options.
NewClient(opts) ==
  /\ options = opts
  /\ sockets = <<>>
  /\ ws = 0
  /\ reconnectTimer = 0
  /\ timers = {}
  /\ reconnectAttempts = 0
  /\ isClosing = FALSE
  /\ messageQueue = <<>>
  /\ sent = <<>>
  /\ lastEvent = NoEvent
  /\ env = [connects |-> 0, closes |-> 0, sends |-> 0, failures |-> 0, scheduled |-> 0]

NoReconnect == [present |-> FALSE, attempts |-> Unset, delay |-> Unset, maxDelay |-> Unset,
                backoff |-> "unset"]

NoClient == NewClient([url |-> "valid", reconnect |-> NoReconnect])

NoUpdate == [symbol |-> <<>>, timestamp |-> 0, data |-> <<>>]

NoProtocol == update = NoUpdate /\ wire = <<>> /\ decodedMsg = <<>> /\ delivered = <<>>

NoTransport == NoClient /\ NoProtocol

\* No WorkerPool has been constructed.
NoPool ==
  /\ workers = <<>> /\ available = <<>> /\ pending = <<>> /\ nextId = 0 /\ tasks = <<>>

NoCall == [seriesIndex |-> Unset, count |-> 0]

NoWaiter ==
  [pc |-> "off", seriesIndex |-> 0, minCount |-> 0, timeout |-> 0, elapsed |-> 0,
   shared |-> FALSE, blocking |-> FALSE, error |-> "none", seen |-> <<0, 0>>,
   clearsAtCall |-> 0]

\* No checked appendData call and no waitForData call has been made.
NoSdm == lastCall = NoCall /\ waiter = NoWaiter

\* new RingBuffer(capacity)
NewRingBuffer ==
  [buffer |-> [i \in 0..capacity - 1 |-> 0], writeOffset |-> 0, readOffset |-> 0, size |-> 0]

\* A DataBuffer that has not been used.
NoBuffer ==
  /\ ringBuffer = NewRingBuffer /\ _length = 0 /\ bufThrown = "none"
  /\ held = <<>> /\ reads = <<>>

NoMark == [set |-> FALSE, data |-> 0, held |-> <<>>]

\* No StreamingDataSource has been constructed.
NoStream ==
  /\ isStreaming = FALSE
  /\ stream = [kind |-> "none", mode |-> "append", pc |-> "idle", chunks |-> <<>>,
               batches |-> <<>>]
  /\ events = <<>>
  /\ stopMark = NoMark

NoInput == [called |-> FALSE, points |-> <<>>, tolNum |-> 0, tolDen |-> 1]

\* douglasPeucker is not running.
NoRecursion ==
  /\ dpInput = NoInput
  /\ dpStack = <<>>
  /\ dpThrown = "none"

\* No frame has been received; no compression is configured.
NoFrames ==
  /\ compression = "unset"
  /\ received = 0
  /\ decompressing = {}
  /\ emitted = <<>>

NoMore == NoSdm /\ NoBuffer /\ NoStream /\ NoRecursion /\ NoFrames

InitRing ==
  /\ dataBuffer = [w \in 0..BufWords - 1 |-> 0]
  /\ metadata = [i \in 0..seriesCount * MetaInts - 1 |-> 0]
  /\ thrown = "none"
  /\ written = [s \in Series |-> <<>>]
  /\ timestamps = [s \in Series |-> {}]
  /\ writers = IdleWriters
  /\ reader = IdleReader
  /\ calls = <<>>
  /\ clears = 0
  /\ appended = [s \in Series |-> 0]

\* appendData(seriesIndex, data) called and returned in one context.
appendData(seriesIndex, data) ==
  /\ seriesIndex < seriesCount
  /\ TotalWritten + Len(data) <= MaxWritten
  /\ LET r == AppendResult(dataBuffer, metadata, seriesIndex, data)
     IN /\ dataBuffer' = r.buf
        /\ metadata' = r.meta
  /\ thrown' = "none"
  /\ written' = [written EXCEPT ![seriesIndex] = @ \o data]
  /\ appended' = [appended EXCEPT ![seriesIndex] = @ + Len(data)]
  /\ timestamps' = [timestamps EXCEPT ![seriesIndex] = @ \cup TimesOf(data)]
  /\ UNCHANGED <<writers, reader, calls, clears, nonRingVars>>

\* appendData with seriesIndex >= seriesCount: throws before touching anything.
appendDataOutOfBounds(seriesIndex) ==
  /\ seriesIndex >= seriesCount
  /\ thrown' = "Series index out of bounds"
  /\ UNCHANGED <<dataBuffer, metadata, written, timestamps, writers, reader, calls, clears,
                 appended, nonRingVars>>

\* clear(seriesIndex)
clear(seriesIndex) ==
  /\ clears < MaxClears
  /\ clears' = clears + 1
  /\ metadata' = [metadata EXCEPT ![seriesIndex * MetaInts] = 0,
                                  ![seriesIndex * MetaInts + 1] = 0]
  /\ thrown' = "none"
  /\ written' = [written EXCEPT ![seriesIndex] = <<>>]
  /\ timestamps' = [timestamps EXCEPT ![seriesIndex] = {}]
  /\ UNCHANGED <<dataBuffer, writers, reader, calls, appended, nonRingVars>>

\* ChartImpl.handleRealtimeUpdate for a decoded Update of the series' symbol:
\* the update is logged, the series data is not touched.
handleRealtimeUpdate(seriesIndex, timestamp) ==
  /\ timestamps' = [timestamps EXCEPT ![seriesIndex] = @ \cup {timestamp}]
  /\ UNCHANGED <<dataBuffer, metadata, thrown, written, writers, reader, calls, clears,
                 appended, nonRingVars>>

----------------------------------------------------------------------------
(* appendData and getData as they run in concurrent execution contexts: one *)
(* step per access to the shared buffers.                                   *)

historyVars == <<thrown, written, timestamps, clears, appended, nonRingVars>>

\* A context enters appendData(seriesIndex, data); the bounds check passes.
appendDataEnter(w, seriesIndex, data) ==
  /\ writers[w].pc = "idle"
  /\ seriesIndex < seriesCount
  /\ Cardinality({n \in 1..Len(calls) : calls[n].w = w}) <
       (IF reader.pc = "off" THEN 1 ELSE MaxCalls)
  /\ writers' = [writers EXCEPT ![w] =
       [IdleWriter EXCEPT !.pc = "loadWriteOffset", !.seriesIndex = seriesIndex,
                          !.data = data]]
  /\ calls' = Append(calls, [w |-> w, seriesIndex |-> seriesIndex, data |-> data])
  /\ UNCHANGED <<dataBuffer, metadata, reader, historyVars>>

\* const writeOffset = Atomics.load(this.metadata, metadataOffset)
appendDataLoadWriteOffset(w) ==
  /\ writers[w].pc = "loadWriteOffset"
  /\ writers' = [writers EXCEPT ![w].pc = "loadDataCount",
       ![w].writeOffset = metadata[writers[w].seriesIndex * MetaInts]]
  /\ UNCHANGED <<dataBuffer, metadata, reader, calls, historyVars>>

\* const dataCount = Atomics.load(this.metadata, metadataOffset + 1), and the
\* set-up of the loop.
appendDataLoadDataCount(w) ==
  /\ writers[w].pc = "loadDataCount"
  /\ writers' = [writers EXCEPT
       ![w].pc = IF writers[w].data = <<>> THEN "storeWriteOffset" ELSE "write",
       ![w].dataCount = metadata[writers[w].seriesIndex * MetaInts + 1],
       ![w].currentOffset = SeriesOffset(writers[w].seriesIndex) + writers[w].writeOffset,
       ![w].i = 1,
       ![w].k = 1]
  /\ UNCHANGED <<dataBuffer, metadata, reader, calls, historyVars>>

\* One setFloat32 of the loop body; the wrap test precedes the first of the
\* six, currentOffset += pointSize follows the last.
appendDataWriteWord(w) ==
  LET c == writers[w]
      off == IF c.k = 1 THEN WrapOffset(c.seriesIndex, c.currentOffset)
             ELSE c.currentOffset
      lastWord == c.k = WordsPerPoint
      lastPoint == c.i = Len(c.data)
  IN /\ c.pc = "write"
     /\ dataBuffer' = SetFloat32(dataBuffer, off + (c.k - 1) * FloatSize,
                                 c.data[c.i][Fields[c.k]])
     /\ writers' = [writers EXCEPT
          ![w].currentOffset = IF lastWord THEN off + pointSize ELSE off,
          ![w].k = IF lastWord THEN 1 ELSE c.k + 1,
          ![w].i = IF lastWord THEN c.i + 1 ELSE c.i,
          ![w].pc = IF lastWord /\ lastPoint THEN "storeWriteOffset" ELSE "write"]
     /\ UNCHANGED <<metadata, reader, calls, historyVars>>

\* Atomics.store(this.metadata, metadataOffset, newWriteOffset)
appendDataStoreWriteOffset(w) ==
  LET c == writers[w]
  IN /\ c.pc = "storeWriteOffset"
     /\ metadata' = [metadata EXCEPT ![c.seriesIndex * MetaInts] =
                       c.currentOffset - SeriesOffset(c.seriesIndex)]
     /\ writers' = [writers EXCEPT ![w].pc = "storeDataCount"]
     /\ UNCHANGED <<dataBuffer, reader, calls, historyVars>>

\* Atomics.store(this.metadata, metadataOffset + 1, newDataCount), the notify,
\* and the return.
appendDataStoreDataCount(w) ==
  LET c == writers[w]
  IN /\ c.pc = "storeDataCount"
     /\ metadata' = [metadata EXCEPT ![c.seriesIndex * MetaInts + 1] =
                       NewDataCount(c.dataCount, Len(c.data))]
     /\ writers' = [writers EXCEPT ![w] = IdleWriter]
     /\ UNCHANGED <<dataBuffer, reader, calls, historyVars>>

\* The reading context enters getData(seriesIndex, startIndex, count).
getDataEnter(seriesIndex, startIndex, count) ==
  /\ reader.pc = "idle"
  /\ seriesIndex < seriesCount
  /\ reader' = [ReadyReader EXCEPT !.pc = "loadDataCount", !.seriesIndex = seriesIndex,
                                   !.startIndex = startIndex, !.count = count]
  /\ UNCHANGED <<dataBuffer, metadata, writers, calls, historyVars>>

\* const dataCount = Atomics.load(...); the early return; actualCount.
getDataLoadDataCount ==
  LET dataCount == metadata[reader.seriesIndex * MetaInts + 1]
      actualCount == Min(reader.count, dataCount - reader.startIndex)
  IN /\ reader.pc = "loadDataCount"
     /\ reader' = [reader EXCEPT
          !.dataCount = dataCount,
          !.actualCount = IF reader.startIndex >= dataCount THEN 0 ELSE actualCount,
          !.pc = IF reader.startIndex >= dataCount \/ actualCount <= 0
                 THEN "done" ELSE "copy"]
     /\ UNCHANGED <<dataBuffer, metadata, writers, calls, historyVars>>

\* The copy loops of getData, one float32 word per step.
getDataCopyWord ==
  LET pointIndex == (reader.startIndex + reader.i) % maxDataPoints
      sourceOffset == SeriesOffset(reader.seriesIndex) + pointIndex * pointSize
      lastWord == reader.j = WordsPerPoint - 1
      lastPoint == reader.i = reader.actualCount - 1
  IN /\ reader.pc = "copy"
     /\ reader' = [reader EXCEPT
          !.result = Append(@, dataBuffer[(sourceOffset \div FloatSize) + reader.j]),
          !.j = IF lastWord THEN 0 ELSE reader.j + 1,
          !.i = IF lastWord THEN reader.i + 1 ELSE reader.i,
          !.pc = IF lastWord /\ lastPoint THEN "done" ELSE "copy"]
     /\ UNCHANGED <<dataBuffer, metadata, writers, calls, historyVars>>

\* getData returns its result to the caller.
getDataReturn ==
  /\ reader.pc = "done"
  /\ reader' = ReadyReader
  /\ UNCHANGED <<dataBuffer, metadata, writers, calls, historyVars>>

WriterStep(w) ==
  \/ \E data \in ConcBatches : appendDataEnter(w, ConcSeries, data)
  \/ appendDataLoadWriteOffset(w)
  \/ appendDataLoadDataCount(w)
  \/ appendDataWriteWord(w)
  \/ appendDataStoreWriteOffset(w)
  \/ appendDataStoreDataCount(w)

ReaderStep ==
  \/ \E startIndex \in 0..1, count \in 1..maxDataPoints :
       getDataEnter(ConcSeries, startIndex, count)
  \/ getDataLoadDataCount
  \/ getDataCopyWord
  \/ getDataReturn

\* One writing context and one reading context.
InitRW ==
  /\ InitRing!1 /\ InitRing!2 /\ InitRing!3 /\ InitRing!4 /\ InitRing!5
  /\ NoDecimation /\ NoAggregation /\ NoTransport /\ NoPool /\ NoMore
  /\ writers = [w \in {1} |-> IdleWriter]
  /\ reader = ReadyReader
  /\ calls = <<>>
  /\ clears = 0
  /\ appended = [s \in Series |-> 0]

NextRW == WriterStep(1) \/ ReaderStep

SpecRW == InitRW /\ [][NextRW]_vars

\* Two writing contexts, each making one appendData call on the same series,
\* on an empty ring or after a first point has been appended.
InitWW ==
  /\ \E prefix \in SeqsUpTo({Candle(1)}, 1) :
       LET r == AppendResult([w \in 0..BufWords - 1 |-> 0],
                             [i \in 0..seriesCount * MetaInts - 1 |-> 0],
                             ConcSeries, prefix)
       IN /\ dataBuffer = r.buf
          /\ metadata = r.meta
          /\ calls = <<[w |-> 0, seriesIndex |-> ConcSeries, data |-> prefix]>>
  /\ InitRing!3 /\ InitRing!4 /\ InitRing!5
  /\ NoDecimation /\ NoAggregation /\ NoTransport /\ NoPool /\ NoMore
  /\ writers = [w \in {1, 2} |-> IdleWriter]
  /\ reader = IdleReader
  /\ clears = 0
  /\ appended = [s \in Series |-> 0]

NextWW == WriterStep(1) \/ WriterStep(2)

SpecWW == InitWW /\ [][NextWW]_vars

\* A batch of n candles that continues the series: the k-th candle ever
\* appended to a series carries the value k.
NextBatch(seriesIndex, n) == [k \in 1..n |-> Candle(appended[seriesIndex] + k)]

Next ==
  \/ \E s \in Series, n \in 0..MaxBatch : appendData(s, NextBatch(s, n))
  \/ \E s \in seriesCount .. seriesCount + 1 : appendDataOutOfBounds(s)
  \/ \E s \in Series : clear(s)

Init == InitRing /\ NoDecimation /\ NoAggregation /\ NoTransport /\ NoPool /\ NoMore

Spec == Init /\ [][Next]_vars

\* The ring channel fed by the chart's realtime update handler.
NextUpdates ==
  \/ \E s \in Series, t \in 1..NumVals : handleRealtimeUpdate(s, t)
  \/ \E s \in Series, data \in Batches : appendData(s, data)
  \/ \E s \in Series : clear(s)

SpecUpdates == Init /\ [][NextUpdates]_vars

----------------------------------------------------------------------------
(* Decimation: the data worker's handleDecimate, DataDecimator.decimate,   *)
(* douglasPeucker, and the Min/Max path of the decimation compute shader.  *)
(* Distances are compared exactly (as squares over a common denominator);  *)
(* the source compares their float64 roundings.                            *)

MaxOf(S) == CHOOSE m \in S : \A n \in S : n <= m

MinOf(S) == CHOOSE m \in S : \A n \in S : m <= n

\* The decoding loop of handleDecimate / DataDecimator.decodePoints on a
\* buffer that holds whole points.
DecodePoints(buf) ==
  [i \in 1..(Len(buf) \div 2) |-> [x |-> buf[2 * i - 1], y |-> buf[2 * i]]]

\* The encoding loop of handleDecimate / DataDecimator.encodePoints.
EncodePoints(points) ==
  [n \in 1..(2 * Len(points)) |->
     IF n % 2 = 1 THEN Float32(points[(n + 1) \div 2].x)
     ELSE Float32(points[n \div 2].y)]

\* perpendicularDistance(point, lineStart, lineEnd) as the fraction
\* num / den of its square.
PerpendicularDistanceSq(point, lineStart, lineEnd) ==
  LET dx == lineEnd.x - lineStart.x
      dy == lineEnd.y - lineStart.y
      cross == (point.x - lineStart.x) * dy - (point.y - lineStart.y) * dx
  IN IF dx = 0 /\ dy = 0
     THEN [num |-> (point.x - lineStart.x) * (point.x - lineStart.x)
                   + (point.y - lineStart.y) * (point.y - lineStart.y),
           den |-> 1]
     ELSE [num |-> cross * cross, den |-> dx * dx + dy * dy]

\* The scan of douglasPeucker: the 1-based index of the first interior point
\* at maximal distance, or 1 (maxIndex = 0) when every distance is 0.
MaxDistanceIndex(points) ==
  LET n == Len(points)
      d(i) == PerpendicularDistanceSq(points[i], points[1], points[n]).num
      best == MaxOf({d(i) : i \in 2..(n - 1)})
  IN IF best = 0 THEN 1
     ELSE CHOOSE i \in 2..(n - 1) : d(i) = best /\ \A j \in 2..(i - 1) : d(j) < best

\* maxDistance > tolerance, for the tolerance tolNum / tolDen >= 0.
ExceedsTolerance(distSq, tolNum, tolDen) ==
  distSq.num * tolDen * tolDen > tolNum * tolNum * distSq.den

RECURSIVE douglasPeucker(_, _, _)
douglasPeucker(points, tolNum, tolDen) ==
  IF Len(points) <= 2 THEN points
  ELSE LET n == Len(points)
           maxIndex == MaxDistanceIndex(points)
           maxDistance == PerpendicularDistanceSq(points[maxIndex], points[1], points[n])
       IN IF ExceedsTolerance(maxDistance, tolNum, tolDen)
          THEN LET left == douglasPeucker(SubSeq(points, 1, maxIndex), tolNum, tolDen)
                   right == douglasPeucker(SubSeq(points, maxIndex, n), tolNum, tolDen)
               IN SubSeq(left, 1, Len(left) - 1) \o right
          ELSE <<points[1], points[n]>>

\* maxY - minY of the points; the tolerance is this range / 100.
RangeY(points) ==
  MaxOf({points[i].y : i \in 1..Len(points)}) - MinOf({points[i].y : i \in 1..Len(points)})

\* points.filter((_, i) => i % step === 0) with step = Math.ceil(length / targetPoints);
\* for targetPoints = 0 the step is Infinity and only index 0 passes.
NthPoint(points, target) ==
  LET n == Len(points)
      step == IF target = 0 THEN n + 1 ELSE (n + target - 1) \div target
      kept == {i \in 1..n : (i - 1) % step = 0}
  IN [k \in 1..Cardinality(kept) |-> points[(k - 1) * step + 1]]

AtMostTargetStrict(n, target) == n < target

\* points.length <= targetPoints
AtMostTarget(n, target) == n <= target

\* handleDecimate(data) of the data worker.
handleDecimateResult(buf, target, alg) ==
  LET points == DecodePoints(buf)
      selected ==
        CASE alg = "douglas-peucker" -> douglasPeucker(points, RangeY(points), 100)
          [] alg = "nth-point" -> NthPoint(points, target)
          [] alg = "lttb" -> points
          [] OTHER -> points
  IN IF AtMostTarget(Len(points), target) THEN buf ELSE EncodePoints(selected)

\* DataDecimator.decimate(data, targetPoints).
DataDecimatorResult(buf, target) ==
  LET points == DecodePoints(buf)
      vec2Points == [i \in 1..Len(points) |-> [x |-> i - 1, y |-> points[i].y]]
      simplified == douglasPeucker(vec2Points, RangeY(points), 100)
      simplifiedPoints == [k \in 1..Len(simplified) |-> points[simplified[k].x + 1]]
  IN IF Len(points) <= target THEN buf ELSE EncodePoints(simplifiedPoints)

\* minmax(bucketIndex, bucketSize) of the decimation shader: the 0-based
\* indices of the first minimum and the first maximum of the bucket.
ShaderMinMax(points, bucketIndex, bucketSize) ==
  LET startIndex == bucketIndex * bucketSize
      endIndex == Min(startIndex + bucketSize, Len(points))
      ys == {points[i + 1].y : i \in startIndex..(endIndex - 1)}
      first(v) == CHOOSE i \in startIndex..(endIndex - 1) :
                    points[i + 1].y = v /\ \A j \in startIndex..(i - 1) : points[j + 1].y # v
  IN [x |-> first(MinOf(ys)), y |-> first(MaxOf(ys))]

\* main of the decimation shader with algorithm = 2 (MinMax), for an input
\* longer than outputSize: the entries of outputData that get written.
ShaderMinMaxOutput(points, outputSize) ==
  LET bucketSize == Max(1, Len(points) \div outputSize)
      entry(n) ==
        LET bucketIndex == n \div 2
            indices == ShaderMinMax(points, bucketIndex, bucketSize)
        IN IF n % 2 = 0 THEN points[indices.x + 1] ELSE points[indices.y + 1]
  IN [k \in 1..outputSize |-> entry(k - 1)]

PointSet == {[x |-> px, y |-> py] : px \in 0..MaxX, py \in 0..MaxY}

Algorithms == {"douglas-peucker", "nth-point", "lttb", "minmax"}

InitDecimate ==
  /\ \E points \in SeqsUpTo(PointSet, MaxPoints) : input = EncodePoints(points)
  /\ targetPoints \in 0..MaxTarget
  /\ \/ decimator = "worker" /\ algorithm \in Algorithms
     \/ decimator = "DataDecimator" /\ algorithm = "douglas-peucker"
  /\ decimated = <<>>
  /\ InitRing /\ NoAggregation /\ NoTransport /\ NoPool /\ NoMore

\* The buffer the next pass works on: the input, then the previous result.
PassInput == IF decimated = <<>> THEN input ELSE decimated[Len(decimated)]

\* The worker's handleDecimate applied to the input, then to its own result.
handleDecimate ==
  /\ decimator = "worker"
  /\ Len(decimated) < 2
  /\ decimated' = Append(decimated, handleDecimateResult(PassInput, targetPoints, algorithm))
  /\ UNCHANGED <<input, targetPoints, algorithm, decimator, ringVars, aggVars, wsVars, protoVars, poolVars, moreVars>>

\* DataDecimator.decimate applied to the input, then to its own result.
decimate ==
  /\ decimator = "DataDecimator"
  /\ Len(decimated) < 2
  /\ decimated' = Append(decimated, DataDecimatorResult(PassInput, targetPoints))
  /\ UNCHANGED <<input, targetPoints, algorithm, decimator, ringVars, aggVars, wsVars, protoVars, poolVars, moreVars>>

NextDecimate == handleDecimate \/ decimate

SpecDecimate == InitDecimate /\ [][NextDecimate]_vars

----------------------------------------------------------------------------
(* Aggregation: the data worker's handleAggregate, for an interval > 0.    *)

\* The decoding loop of handleAggregate on a buffer that holds whole candles.
DecodeCandles(buf) ==
  [i \in 1..(Len(buf) \div WordsPerPoint) |->
     [f \in {Fields[k] : k \in 1..WordsPerPoint} |->
        buf[(i - 1) * WordsPerPoint + (CHOOSE k \in 1..WordsPerPoint : Fields[k] = f)]]]

\* The encoding loop of handleAggregate.
EncodeCandles(cs) == Flatten(cs)

BucketKeyOfNext(time, ival) == ((time \div ival) + 1) * ival

\* Math.floor(candle.time / interval) * interval
BucketKey(time, ival) == (time \div ival) * ival

\* The keys of the Map `grouped`, in insertion order.
RECURSIVE GroupKeys(_, _, _)
GroupKeys(cs, ival, seen) ==
  IF cs = <<>> THEN seen
  ELSE LET key == BucketKey(Head(cs).time, ival)
       IN GroupKeys(Tail(cs), ival,
                    IF \E k \in 1..Len(seen) : seen[k] = key THEN seen ELSE Append(seen, key))

\* grouped.get(key): the candles of the key, in input order.
RECURSIVE Group(_, _, _)
Group(cs, ival, key) ==
  IF cs = <<>> THEN <<>>
  ELSE (IF BucketKey(Head(cs).time, ival) = key THEN <<Head(cs)>> ELSE <<>>)
       \o Group(Tail(cs), ival, key)

\* group.reduce((sum, c) => sum + c.volume, 0)
RECURSIVE SumVolume(_)
SumVolume(group) == IF group = <<>> THEN 0 ELSE Head(group).volume + SumVolume(Tail(group))

\* The body of the loop over the groups.
AggregateGroup(time, group) ==
  [time |-> time,
   open |-> group[1].open,
   high |-> MaxOf({group[k].high : k \in 1..Len(group)}),
   low |-> MinOf({group[k].low : k \in 1..Len(group)}),
   close |-> group[Len(group)].close,
   volume |-> SumVolume(group)]

RECURSIVE InsertByTime(_, _)
InsertByTime(sorted, c) ==
  IF sorted = <<>> THEN <<c>>
  ELSE IF c.time - Head(sorted).time < 0 THEN <<c>> \o sorted
  ELSE <<Head(sorted)>> \o InsertByTime(Tail(sorted), c)

\* aggregated.sort((a, b) => a.time - b.time), a stable sort.
RECURSIVE SortByTime(_)
SortByTime(cs) ==
  IF cs = <<>> THEN <<>>
  ELSE InsertByTime(SortByTime(SubSeq(cs, 1, Len(cs) - 1)), cs[Len(cs)])

\* handleAggregate(data) of the data worker.
handleAggregateResult(buf, ival) ==
  LET cs == DecodeCandles(buf)
      keys == GroupKeys(cs, ival, <<>>)
      groups == [k \in 1..Len(keys) |-> AggregateGroup(keys[k], Group(cs, ival, keys[k]))]
  IN EncodeCandles(SortByTime(groups))

\* The k-th combination of open, high, low, close and volume.
Shape(k) == [open |-> k, high |-> k + NumShapes, low |-> k - 1,
             close |-> NumShapes + 1 - k, volume |-> k]

CandleAt(time, k) ==
  [time |-> time, open |-> Shape(k).open, high |-> Shape(k).high, low |-> Shape(k).low,
   close |-> Shape(k).close, volume |-> Shape(k).volume]

\* A candle time above 2^25, where neighbouring float32 values are 4 apart.
BigTime == Pow2(25) + 8

\* Candle times that a Float32Array holds exactly: small ones, and two
\* neighbouring float32 values above 2^25.
Times == (0..MaxTime) \cup {BigTime, BigTime + 4}

CandleSet == {CandleAt(t, k) : t \in Times, k \in 1..NumShapes}

InitAggregate ==
  /\ \E cs \in SeqsUpTo(CandleSet, MaxCandles) : aggInput = EncodeCandles(cs)
  /\ interval \in 1..MaxInterval
  /\ aggregated = <<>>
  /\ InitRing /\ NoDecimation /\ NoTransport /\ NoPool /\ NoMore

\* The worker handles one 'aggregate' message.
handleAggregate ==
  /\ aggregated = <<>>
  /\ aggregated' = <<handleAggregateResult(aggInput, interval)>>
  /\ UNCHANGED <<aggInput, interval, ringVars, decVars, wsVars, protoVars, poolVars, moreVars>>

NextAggregate == handleAggregate

SpecAggregate == InitAggregate /\ [][NextAggregate]_vars

----------------------------------------------------------------------------
(* Properties of the aggregation engine *)

AggIn == DecodeCandles(aggInput)

AggOut == DecodeCandles(aggregated[1])

\* floor(time / interval) * interval of the input candles, as a set.
Buckets == {t - (t % interval) : t \in {AggIn[i].time : i \in 1..Len(AggIn)}}

\* The k-th smallest bucket.
BucketAt(k) == CHOOSE b \in Buckets : Cardinality({c \in Buckets : c < b}) = k - 1

\* The input candles of a bucket, in input order.
InBucket(bucket) ==
  SelectSeq(AggIn, LAMBDA c : bucket <= c.time /\ c.time < bucket + interval)

\* C9: the output has one candle per non-empty bucket
\* floor(time / interval) * interval, in strictly ascending time, and the
\* candle of a bucket has the open of the bucket's first candle, the close of
\* its last, the maximal high, the minimal low and the sum of the volumes.
C9_AggregatePerBucket ==
  aggregated # <<>> =>
    /\ Len(AggOut) = Cardinality(Buckets)
    /\ \A k \in 1..(Len(AggOut) - 1) : AggOut[k].time < AggOut[k + 1].time
    /\ \A k \in 1..Len(AggOut) :
         LET g == InBucket(BucketAt(k))
         IN /\ AggOut[k].open = g[1].open
            /\ AggOut[k].close = g[Len(g)].close
            /\ \A i \in 1..Len(g) : g[i].high <= AggOut[k].high /\ AggOut[k].low <= g[i].low
            /\ \E i \in 1..Len(g) : g[i].high = AggOut[k].high
            /\ \E i \in 1..Len(g) : g[i].low = AggOut[k].low
            /\ AggOut[k].volume = SumVolume(g)

\* C10: aggregating a single candle returns that candle unchanged.
C10_SingleCandleUnchanged ==
  (aggregated # <<>> /\ Len(AggIn) = 1) => aggregated[1] = aggInput

\* C10 as amended: aggregating a single candle returns one candle with the
\* same open, high, low, close and volume, whose time is the start of the
\* candle's bucket, floor(time / interval) * interval, as a float32; the
\* candle comes back unchanged whenever its time is a multiple of the
\* interval.
C10_SingleCandleAtBucketStart ==
  (aggregated # <<>> /\ Len(AggIn) = 1) =>
    /\ Len(AggOut) = 1
    /\ \A k \in 2..WordsPerPoint : AggOut[1][Fields[k]] = AggIn[1][Fields[k]]
    /\ AggOut[1].time = Float32(AggIn[1].time - (AggIn[1].time % interval))
    /\ (AggIn[1].time % interval = 0) => aggregated[1] = aggInput

\* A single candle whose time is not a multiple of the interval has been
\* aggregated and has come back with another time.
C10_Witness ==
  /\ aggregated # <<>>
  /\ Len(AggIn) = 1
  /\ AggIn[1].time % interval # 0
  /\ AggOut[1].time # AggIn[1].time

----------------------------------------------------------------------------
(* Properties of the decimation engine *)

NumPoints(buf) == Len(buf) \div 2

FirstPass == decimated[1]

SecondPass == decimated[2]

\* C6: for 'lttb' and inputLen >= targetCount >= 2 the result has exactly
\* targetCount points, the first and the last being those of the input.
C6_LttbExactTargetCount ==
  (/\ decimated # <<>>
   /\ decimator = "worker"
   /\ algorithm = "lttb"
   /\ targetPoints >= 2
   /\ NumPoints(input) >= targetPoints)
  => /\ NumPoints(FirstPass) = targetPoints
     /\ DecodePoints(FirstPass)[1] = DecodePoints(input)[1]
     /\ DecodePoints(FirstPass)[NumPoints(FirstPass)] = DecodePoints(input)[NumPoints(input)]

\* C7: an input of at most targetCount points is returned unchanged, no pass
\* returns more points than it was given, and a second pass with the same
\* target returns the result of the first whenever the input or that result
\* has at most targetCount points.
C7_NoOpAndIdempotent ==
  /\ decimated # <<>> =>
       /\ NumPoints(input) <= targetPoints => FirstPass = input
       /\ NumPoints(FirstPass) <= NumPoints(input)
  /\ Len(decimated) = 2 =>
       /\ (NumPoints(input) <= targetPoints \/ NumPoints(FirstPass) <= targetPoints)
            => SecondPass = FirstPass
       /\ NumPoints(SecondPass) <= NumPoints(FirstPass)

\* A first pass that removed points and reached the target, followed by a
\* second pass that left its result alone.
C7_Witness ==
  /\ Len(decimated) = 2
  /\ NumPoints(input) > targetPoints
  /\ NumPoints(FirstPass) <= targetPoints
  /\ NumPoints(FirstPass) < NumPoints(input)
  /\ SecondPass = FirstPass

\* Contiguous buckets that cover points 1..n, given by the set of positions
\* after which a bucket ends.
BucketsOf(n, cuts) ==
  LET ends == cuts \cup {n}
  IN {[from |-> (IF \E c \in ends : c < e
                 THEN MaxOf({c \in ends : c < e}) + 1 ELSE 1),
       to |-> e] : e \in ends}

\* out is, bucket after bucket of some bucketing of the whole of points, the
\* pair (minimum value, maximum value) of the bucket.
IsMinMaxOfBuckets(points, out) ==
  \E cuts \in SUBSET (1..(Len(points) - 1)) :
    LET buckets == BucketsOf(Len(points), cuts)
        nth(k) == CHOOSE b \in buckets : Cardinality({c \in buckets : c.to < b.to}) = k - 1
        ys(b) == {points[i].y : i \in b.from..b.to}
    IN /\ Len(out) = 2 * Cardinality(buckets)
       /\ \A k \in 1..Cardinality(buckets) :
            /\ out[2 * k - 1].y = MinOf(ys(nth(k)))
            /\ out[2 * k].y = MaxOf(ys(nth(k)))

C8_WorkerMinMax == IsMinMaxOfBuckets(DecodePoints(input), DecodePoints(FirstPass))

C8_ShaderMinMax ==
  IsMinMaxOfBuckets(DecodePoints(input), ShaderMinMaxOutput(DecodePoints(input), targetPoints))

\* C8: Min/Max decimation of an input longer than the target emits, for
\* every bucket of a bucketing that covers the whole input, a pair of points
\* whose values are the minimum and the maximum of the bucket.
C8_MinMaxPreservesExtremes ==
  (/\ decimated # <<>>
   /\ decimator = "worker"
   /\ algorithm = "minmax"
   /\ targetPoints >= 2
   /\ NumPoints(input) > targetPoints)
  => C8_WorkerMinMax /\ C8_ShaderMinMax

----------------------------------------------------------------------------
(* Properties of the ring channel used from one context *)

LastN(seq, n) == SubSeq(seq, Len(seq) - n + 1, Len(seq))

\* C1: once more than maxDataPoints points have been appended to a series
\* (no clear in between), getData(series, 0, maxDataPoints) returns the
\* maxDataPoints most recently appended points, oldest first.
C1_RecentPointsInOrder ==
  \A s \in Series :
    Len(written[s]) > maxDataPoints =>
      GetData(dataBuffer, metadata, s, 0, maxDataPoints)
        = Flatten(LastN(written[s], maxDataPoints))

\* C2: for every series, getDataCount is between 0 and maxDataPoints.
C2_CountWithinCapacity ==
  \A s \in Series : getDataCount(s) >= 0 /\ getDataCount(s) <= maxDataPoints

\* A single batch longer than maxDataPoints has been appended and the count
\* sits at maxDataPoints.
C2_Witness ==
  \E s \in Series :
    /\ Len(written[s]) > maxDataPoints
    /\ getDataCount(s) = maxDataPoints

\* C5: the count of a series equals the number of distinct timestamps it has
\* received (up to the capacity of the ring).
C5_CountIsDistinctTimestamps ==
  \A s \in Series :
    getDataCount(s) = Min(Cardinality(timestamps[s]), maxDataPoints)

----------------------------------------------------------------------------
(* Properties of the ring channel used from several contexts *)

ResultPoint(n) == SubSeq(reader.result, (n - 1) * WordsPerPoint + 1, n * WordsPerPoint)

\* The six words are those of one candle that was passed to appendData.
WholePoint(p) == \E v \in 1..NumVals : p = PointWords(Candle(v))

\* C3: beside a running appendData, every point that getData returns (every
\* point covered by the count the reader saw) is a completely written point.
C3_ReaderSeesWholePoints ==
  reader.pc = "done" =>
    \A n \in 1..(Len(reader.result) \div WordsPerPoint) : WholePoint(ResultPoint(n))

RECURSIVE SerialResult(_, _, _)
SerialResult(buf, meta, cs) ==
  IF cs = <<>> THEN [buf |-> buf, meta |-> meta]
  ELSE LET r == AppendResult(buf, meta, Head(cs).seriesIndex, Head(cs).data)
       IN SerialResult(r.buf, r.meta, Tail(cs))

SerialFromEmpty(cs) ==
  SerialResult([w \in 0..BufWords - 1 |-> 0],
               [i \in 0..seriesCount * MetaInts - 1 |-> 0], cs)

\* C4: when two concurrent appendData calls on one series have both returned,
\* writeOffset, count and payload are those of running the two calls one
\* after the other, in one of the two orders.
C4_ConcurrentAppendsSerialize ==
  (Len(calls) = 3 /\ \A w \in DOMAIN writers : writers[w].pc = "idle") =>
    [buf |-> dataBuffer, meta |-> metadata] \in
      {SerialFromEmpty(<<calls[1], calls[2], calls[3]>>),
       SerialFromEmpty(<<calls[1], calls[3], calls[2]>>)}

----------------------------------------------------------------------------
(* Wire protocol: BinaryEncoder, BinaryDecoder and BinaryProtocol.  A buffer *)
(* is a sequence of bytes.  Numbers are non-negative integers: float32      *)
(* values below 2^26 and float64 values below 2^21 are given bit for bit.   *)

\* floor(log2(n)) for n >= 1
RECURSIVE Log2(_)
Log2(n) == IF n < 2 THEN 0 ELSE 1 + Log2(n \div 2)

\* DataView.setUint16 / setUint32, little-endian
Uint16Bytes(v) == <<v % 256, (v \div 256) % 256>>

Uint32Bytes(v) ==
  <<v % 256, (v \div 256) % 256, (v \div 65536) % 256, (v \div 16777216) % 256>>

\* DataView.getUint16 / getUint32, little-endian
Uint16Of(b) == b[1] + 256 * b[2]

Uint32Of(b) == b[1] + 256 * b[2] + 65536 * b[3] + 16777216 * b[4]

\* The IEEE 754 single-precision bit pattern of a float32 value.
Float32Bits(v) ==
  IF v = 0 THEN 0
  ELSE LET e == Log2(v)
       IN (e + 127) * Pow2(23)
          + (IF e <= 23 THEN (v - Pow2(e)) * Pow2(23 - e) ELSE (v - Pow2(e)) \div Pow2(e - 23))

\* The (integer) value of a single-precision bit pattern.
Float32Value(bits) ==
  IF bits = 0 THEN 0
  ELSE LET e == (bits \div Pow2(23)) - 127
           m == Pow2(23) + (bits % Pow2(23))
       IN IF e >= 23 THEN m * Pow2(e - 23) ELSE m \div Pow2(23 - e)

\* DataView.setFloat32, little-endian: round to float32, then store the bits.
Float32Bytes(v) == Uint32Bytes(Float32Bits(Float32(v)))

\* The high word of the IEEE 754 double-precision bit pattern of an integer
\* below 2^21; the low word of such a number is 0.
Float64High(v) ==
  IF v = 0 THEN 0
  ELSE LET e == Log2(v) IN (e + 1023) * Pow2(20) + (v - Pow2(e)) * Pow2(20 - e)

\* DataView.setFloat64, little-endian
Float64Bytes(v) == Uint32Bytes(0) \o Uint32Bytes(Float64High(v))

\* DataView.getFloat64 of such bytes
Float64Value(b) ==
  LET high == Uint32Of(SubSeq(b, 5, 8))
  IN IF high = 0 THEN 0
     ELSE LET e == (high \div Pow2(20)) - 1023
          IN (Pow2(20) + (high % Pow2(20))) \div Pow2(20 - e)

BOM == 65279

ReplacementChar == 65533

\* TextEncoder.encode of one code point of the Basic Multilingual Plane
Utf8Bytes(cp) ==
  IF cp < 128 THEN <<cp>>
  ELSE IF cp < 2048 THEN <<192 + (cp \div 64), 128 + (cp % 64)>>
  ELSE <<224 + (cp \div 4096), 128 + ((cp \div 64) % 64), 128 + (cp % 64)>>

\* TextEncoder.encode
RECURSIVE Utf8Encode(_)
Utf8Encode(str) == IF str = <<>> THEN <<>> ELSE Utf8Bytes(Head(str)) \o Utf8Encode(Tail(str))

IsContinuation(bytes, k) == k <= Len(bytes) /\ bytes[k] >= 128 /\ bytes[k] < 192

\* The UTF-8 decoder of TextDecoder: an ill-formed sequence becomes U+FFFD.
RECURSIVE Utf8Decode(_)
Utf8Decode(bytes) ==
  IF bytes = <<>> THEN <<>>
  ELSE LET b == bytes[1]
       IN IF b < 128 THEN <<b>> \o Utf8Decode(Tail(bytes))
          ELSE IF b >= 192 /\ b < 224 /\ IsContinuation(bytes, 2)
            THEN <<(b - 192) * 64 + (bytes[2] - 128)>> \o Utf8Decode(SubSeq(bytes, 3, Len(bytes)))
          ELSE IF b >= 224 /\ b < 240 /\ IsContinuation(bytes, 2) /\ IsContinuation(bytes, 3)
            THEN <<(b - 224) * 4096 + (bytes[2] - 128) * 64 + (bytes[3] - 128)>>
                 \o Utf8Decode(SubSeq(bytes, 4, Len(bytes)))
          ELSE <<ReplacementChar>> \o Utf8Decode(Tail(bytes))

\* new TextDecoder().decode(bytes): ignoreBOM is false, so a leading byte
\* order mark is dropped.
TextDecode(bytes) ==
  LET str == Utf8Decode(bytes)
  IN IF str # <<>> /\ Head(str) = BOM THEN Tail(str) ELSE str

\* MessageType
MessageTypeUpdate == 3

MessageTypeSnapshot == 4

MessageTypeError == 5

MessageTypeHeartbeat == 6

\* Set bits b of the field mask stand for open, high, low, close, volume,
\* bid, ask, bidSize and askSize, b = 0..8.
FieldBits == 0..(NumFields - 1)

HasNextField(fieldMask, b) == (fieldMask \div Pow2(b + 1)) % 2 = 1

\* fieldMask & (1 << b)
HasField(fieldMask, b) == (fieldMask \div Pow2(b)) % 2 = 1

RECURSIVE MaskOf(_)
MaskOf(bits) ==
  IF bits = {} THEN 0 ELSE LET b == CHOOSE x \in bits : TRUE IN Pow2(b) + MaskOf(bits \ {b})

RECURSIVE EncodeFields(_, _)
EncodeFields(data, b) ==
  IF b = NumFields THEN <<>>
  ELSE (IF b \in DOMAIN data THEN Float32Bytes(data[b]) ELSE <<>>) \o EncodeFields(data, b + 1)

\* The sender's encoding of an Update message, as the wire format has it:
\* u8 type, u32 length and UTF-8 bytes of the symbol, f64 timestamp, u16
\* field mask, one f32 per set bit in ascending bit order.
EncodeUpdate(msg) ==
  <<MessageTypeUpdate>> \o Uint32Bytes(Len(Utf8Encode(msg.symbol))) \o Utf8Encode(msg.symbol)
  \o Float64Bytes(msg.timestamp) \o Uint16Bytes(MaskOf(DOMAIN msg.data))
  \o EncodeFields(msg.data, 0)

\* A read of the BinaryDecoder: the value and the new offset, or the
\* RangeError that DataView and Uint8Array throw past the end of the buffer.
RangeError(offset) == [ok |-> FALSE, value |-> 0, offset |-> offset]

Read(buf, offset, size, value) ==
  IF offset + size > Len(buf) THEN RangeError(offset)
  ELSE [ok |-> TRUE, value |-> value, offset |-> offset + size]

readUint8(buf, offset) == Read(buf, offset, 1, buf[offset + 1])

readUint16(buf, offset) == Read(buf, offset, 2, Uint16Of(SubSeq(buf, offset + 1, offset + 2)))

readUint32(buf, offset) == Read(buf, offset, 4, Uint32Of(SubSeq(buf, offset + 1, offset + 4)))

readFloat32(buf, offset) ==
  Read(buf, offset, 4, Float32Value(Uint32Of(SubSeq(buf, offset + 1, offset + 4))))

readFloat64(buf, offset) == Read(buf, offset, 8, Float64Value(SubSeq(buf, offset + 1, offset + 8)))

readString(buf, offset) ==
  LET length == readUint32(buf, offset)
  IN IF ~length.ok THEN length
     ELSE Read(buf, length.offset, length.value,
               TextDecode(SubSeq(buf, length.offset + 1, length.offset + length.value)))

\* The outcomes of decodeMessage: an UpdateMessage, null, or an exception.
Outcome(kind, msg, offset) == [kind |-> kind, message |-> msg, offset |-> offset]

\* The nine conditional reads of decodeUpdate, from bit b on.
RECURSIVE ReadFields(_, _, _, _, _)
ReadFields(buf, offset, fieldMask, b, data) ==
  IF b = NumFields THEN [ok |-> TRUE, value |-> data, offset |-> offset]
  ELSE IF ~HasField(fieldMask, b) THEN ReadFields(buf, offset, fieldMask, b + 1, data)
  ELSE LET field == readFloat32(buf, offset)
       IN IF ~field.ok THEN field
          ELSE ReadFields(buf, field.offset, fieldMask, b + 1, data @@ (b :> field.value))

\* BinaryProtocol.decodeUpdate(decoder)
decodeUpdate(buf, offset) ==
  LET symbol == readString(buf, offset)
      timestamp == readFloat64(buf, symbol.offset)
      fieldMask == readUint16(buf, timestamp.offset)
      data == ReadFields(buf, fieldMask.offset, fieldMask.value, 0, <<>>)
  IN IF ~symbol.ok THEN Outcome("throw", NoUpdate, symbol.offset)
     ELSE IF ~timestamp.ok THEN Outcome("throw", NoUpdate, timestamp.offset)
     ELSE IF ~fieldMask.ok THEN Outcome("throw", NoUpdate, fieldMask.offset)
     ELSE IF ~data.ok THEN Outcome("throw", NoUpdate, data.offset)
     ELSE Outcome("update", [symbol |-> symbol.value, timestamp |-> timestamp.value,
                             data |-> data.value], data.offset)

\* BinaryProtocol.decodeMessage(buffer)
decodeMessage(buf) ==
  LET messageType == readUint8(buf, 0)
  IN IF ~messageType.ok THEN Outcome("throw", NoUpdate, 0)
     ELSE IF messageType.value = MessageTypeUpdate THEN decodeUpdate(buf, messageType.offset)
     ELSE Outcome("null", NoUpdate, messageType.offset)

CodePoints == {65, 233, BOM}

\* Field values: small ones, and ones around 2^24 + 1, which float32 cannot hold.
ValueBases == {0, Pow2(24) + 1}

\* The Update messages a sender may encode: any subset of the nine fields.
Updates ==
  {[symbol |-> sym, timestamp |-> t, data |-> [b \in bits |-> base + b]] :
     sym \in SeqsUpTo(CodePoints, MaxSymbolLen), t \in 0..MaxTimestamp,
     bits \in SUBSET FieldBits, base \in ValueBases}

InitProtocol ==
  /\ update \in Updates
  /\ wire = <<>> /\ decodedMsg = <<>> /\ delivered = <<>>
  /\ InitRing /\ NoDecimation /\ NoAggregation /\ NoClient /\ NoPool /\ NoMore

\* The sender encodes the message.
encodeUpdate ==
  /\ wire = <<>>
  /\ wire' = EncodeUpdate(update)
  /\ UNCHANGED <<update, decodedMsg, delivered, ringVars, decVars, aggVars, wsVars, poolVars, moreVars>>

\* The receiver decodes the bytes.
decodeWire ==
  /\ wire # <<>> /\ decodedMsg = <<>>
  /\ decodedMsg' = <<decodeMessage(wire)>>
  /\ UNCHANGED <<update, wire, delivered, ringVars, decVars, aggVars, wsVars, poolVars, moreVars>>

NextProtocol == encodeUpdate \/ decodeWire

SpecProtocol == InitProtocol /\ [][NextProtocol]_vars

----------------------------------------------------------------------------
(* Streaming transport: WebSocketClient.  A socket is "CONNECTING", "OPEN", *)
(* "CLOSING" (WebSocket.close called, close event not yet dispatched),      *)
(* "FAILED" (error event dispatched, close event still to come) or         *)
(* "CLOSED" (close event dispatched).                                      *)

\* WebSocket.readyState
ReadyState(s) == IF sockets[s] = "FAILED" THEN "CLOSED" ELSE sockets[s]

\* this.ws?.readyState === WebSocket.OPEN
isConnected == ws # 0 /\ ReadyState(ws) = "OPEN"

Event(type) == [type |-> type, attempt |-> 0, delay |-> 0]

\* The body of createWebSocket: the constructor throws on a url it cannot
\* parse, and the catch block reports that as an error event.
createWebSocket(event) ==
  IF options.url = "invalid"
    THEN /\ lastEvent' = Event("error")
         /\ UNCHANGED <<sockets, ws>>
    ELSE /\ sockets' = Append(sockets, "CONNECTING")
         /\ ws' = Len(sockets) + 1
         /\ lastEvent' = event

\* connect()
connect ==
  /\ env' = [env EXCEPT !.connects = @ + 1]
  /\ IF isConnected
       THEN UNCHANGED <<sockets, ws, isClosing, lastEvent>>
       ELSE isClosing' = FALSE /\ createWebSocket(lastEvent)
  /\ UNCHANGED <<options, reconnectTimer, timers, reconnectAttempts, messageQueue, sent>>

\* The frames flushMessageQueue sends on this.ws once socket s has opened.
FlushedFrames(s) ==
  IF ws # 0 /\ (ws = s \/ ReadyState(ws) = "OPEN")
    THEN [k \in 1..Len(messageQueue) |->
            [socket |-> ws, id |-> messageQueue[k].id, data |-> messageQueue[k].data]]
    ELSE <<>>

\* handleOpen(event), the onopen handler of socket s
handleOpen(s) ==
  /\ sockets[s] = "CONNECTING"
  /\ sockets' = [sockets EXCEPT ![s] = "OPEN"]
  /\ reconnectAttempts' = 0
  /\ env' = [env EXCEPT !.scheduled = 0]
  /\ sent' = sent \o FlushedFrames(s)
  /\ messageQueue' = IF FlushedFrames(s) = <<>> THEN messageQueue ELSE <<>>
  /\ lastEvent' = Event("open")
  /\ UNCHANGED <<options, ws, reconnectTimer, timers, isClosing>>

\* handleError(event), the onerror handler of socket s: the connection was
\* refused or lost.
handleError(s) ==
  /\ sockets[s] \in {"CONNECTING", "OPEN"}
  /\ sockets' = [sockets EXCEPT ![s] = "FAILED"]
  /\ env' = [env EXCEPT !.failures = @ + 1]
  /\ lastEvent' = Event("error")
  /\ UNCHANGED <<options, ws, reconnectTimer, timers, reconnectAttempts, isClosing,
                 messageQueue, sent>>

shouldReconnectWithBudget ==
  /\ options.reconnect.present
  /\ options.reconnect.attempts # Unset /\ reconnectAttempts < options.reconnect.attempts

\* shouldReconnect()
shouldReconnect ==
  /\ options.reconnect.present
  /\ options.reconnect.attempts = Unset \/ reconnectAttempts < options.reconnect.attempts

\* reconnect.delay ?? 1000
BaseDelay == IF options.reconnect.delay = Unset THEN 1000 ELSE options.reconnect.delay

\* reconnect.maxDelay ?? 30000
MaxDelay == IF options.reconnect.maxDelay = Unset THEN 30000 ELSE options.reconnect.maxDelay

ReconnectDelayLinear(attempts) == Min(BaseDelay * (attempts + 1), MaxDelay)

\* The delay scheduleReconnect computes.
ReconnectDelay(attempts) ==
  IF options.reconnect.backoff = "exponential"
    THEN Min(BaseDelay * Pow2(attempts), MaxDelay)
    ELSE Min(BaseDelay * (attempts + 1), MaxDelay)

AttemptsAfterScheduleTwice(attempts) == attempts + 2

\* this.reconnectAttempts++
AttemptsAfterSchedule(attempts) == attempts + 1

\* handleClose(event), the onclose handler of socket s, with
\* scheduleReconnect; the timer is named after the socket whose close
\* scheduled it.
handleClose(s) ==
  /\ sockets[s] \in {"OPEN", "CLOSING", "FAILED"}
  /\ sockets' = [sockets EXCEPT ![s] = "CLOSED"]
  /\ ws' = 0
  /\ IF ~isClosing /\ shouldReconnect
       THEN /\ reconnectAttempts' = AttemptsAfterSchedule(reconnectAttempts)
            /\ lastEvent' = [type |-> "reconnecting", attempt |-> reconnectAttempts',
                             delay |-> ReconnectDelay(reconnectAttempts)]
            /\ reconnectTimer' = s
            /\ timers' = timers \cup {[id |-> s, delay |-> ReconnectDelay(reconnectAttempts)]}
            /\ env' = [env EXCEPT !.scheduled = @ + 1,
                                  !.failures = IF sockets[s] = "OPEN" THEN @ + 1 ELSE @]
       ELSE /\ lastEvent' = Event("close")
            /\ env' = [env EXCEPT !.failures = IF sockets[s] = "OPEN" THEN @ + 1 ELSE @]
            /\ UNCHANGED <<reconnectAttempts, reconnectTimer, timers>>
  /\ UNCHANGED <<options, isClosing, messageQueue, sent>>

\* The callback of the timer that scheduleReconnect sets.
reconnectTimerFires(t) ==
  /\ t \in timers
  /\ timers' = timers \ {t}
  /\ reconnectTimer' = 0
  /\ createWebSocket(lastEvent)
  /\ UNCHANGED <<options, reconnectAttempts, isClosing, messageQueue, sent, env>>

\* What send() pushes on the queue: a string is encoded to bytes first.
Queued(data) == IF data = "ArrayBuffer" THEN data ELSE "Uint8Array"

\* send(data); the calls are numbered in the order they are made.
send(data) ==
  /\ env' = [env EXCEPT !.sends = @ + 1]
  /\ IF isConnected
       THEN /\ sent' = Append(sent, [socket |-> ws, id |-> env.sends + 1, data |-> data])
            /\ UNCHANGED messageQueue
       ELSE /\ messageQueue' = Append(messageQueue, [id |-> env.sends + 1, data |-> Queued(data)])
            /\ UNCHANGED sent
  /\ UNCHANGED <<options, sockets, ws, reconnectTimer, timers, reconnectAttempts, isClosing,
                 lastEvent>>

\* close()
close ==
  /\ env' = [env EXCEPT !.closes = @ + 1]
  /\ isClosing' = TRUE
  /\ reconnectTimer' = 0
  /\ timers' = {t \in timers : t.id # reconnectTimer}
  /\ sockets' = IF ws # 0 /\ sockets[ws] \in {"CONNECTING", "OPEN"}
                  THEN [sockets EXCEPT ![ws] = "CLOSING"] ELSE sockets
  /\ ws' = 0
  /\ messageQueue' = <<>>
  /\ UNCHANGED <<options, reconnectAttempts, sent, lastEvent>>

Backoffs == {"exponential", "linear"}

\* Reconnect policies: none, or a policy with or without an attempt budget,
\* with explicit delays or with the defaults.
Policies ==
  {NoReconnect} \cup
  {[present |-> TRUE, attempts |-> a, delay |-> d[1], maxDelay |-> d[2], backoff |-> b] :
     a \in {Unset, MaxAttempts}, d \in {<<1000, 30000>>, <<Unset, Unset>>},
     b \in Backoffs}

\* Of these, the policies that leave the delays to the defaults.
DefaultDelayPolicies == {p \in Policies : p.delay = Unset /\ p.backoff # "exponential"}

otherVars == <<ringVars, decVars, aggVars, protoVars, poolVars, moreVars>>

InitClient(urls, policies) ==
  /\ \E url \in urls, policy \in policies : NewClient([url |-> url, reconnect |-> policy])
  /\ InitRing /\ NoDecimation /\ NoAggregation /\ NoProtocol /\ NoPool /\ NoMore

\* The steps of the sockets and the timers, the network refusing or dropping
\* at most the given number of connections.
SocketStep(failures) ==
  \/ \E s \in 1..Len(sockets) : handleOpen(s) /\ UNCHANGED otherVars
  \/ \E s \in 1..Len(sockets) : env.failures < failures /\ handleError(s) /\ UNCHANGED otherVars
  \/ \E s \in 1..Len(sockets) :
       /\ sockets[s] = "OPEN" => env.failures < failures
       /\ handleClose(s) /\ UNCHANGED otherVars
  \/ \E t \in timers : reconnectTimerFires(t) /\ UNCHANGED otherVars

\* A client whose owner may call connect, close and send at any time.
InitTransport == InitClient({"valid"}, DefaultDelayPolicies)

TransportConnects == MaxConnects + 1

NextTransport ==
  \/ env.connects < TransportConnects /\ connect /\ UNCHANGED otherVars
  \/ env.closes < MaxCloses /\ close /\ UNCHANGED otherVars
  \/ \E data \in {"ArrayBuffer", "string"} :
       env.sends < MaxSends /\ send(data) /\ UNCHANGED otherVars
  \/ SocketStep(MaxFailures)

SpecTransport == InitTransport /\ [][NextTransport]_vars

\* A client that is connected and closed by its owner and otherwise left to
\* its reconnect policy, on a network that fails often.
InitReconnect == InitClient({"valid", "invalid"}, Policies)

NextReconnect ==
  \/ env.connects < MaxConnects /\ connect /\ UNCHANGED otherVars
  \/ env.closes < MaxCloses /\ close /\ UNCHANGED otherVars
  \/ SocketStep(BackoffFailures)

SpecReconnect == InitReconnect /\ [][NextReconnect]_vars

\* The same client on a network that is stable after MaxFailures failures:
\* a pending timer fires, and a connection attempt that is not refused opens.
NextHeal ==
  \/ env.connects < MaxConnects /\ connect /\ UNCHANGED otherVars
  \/ env.closes < MaxCloses /\ close /\ UNCHANGED otherVars
  \/ SocketStep(MaxFailures)

SpecHeal ==
  /\ InitReconnect
  /\ [][NextHeal]_vars
  /\ WF_vars(\E t \in timers : reconnectTimerFires(t) /\ UNCHANGED otherVars)
  /\ WF_vars(\E s \in 1..Len(sockets) : handleOpen(s) /\ UNCHANGED otherVars)

----------------------------------------------------------------------------
(* Receiving: WebSocketClient.handleMessage (binary protocol, no            *)
(* compression) and the 'message' listener that ChartImpl.connect installs. *)

HandlesAnyOutcome(outcome) == outcome.kind # "null"

\* message && message.type === MessageType.Update; an exception of
\* decodeMessage leaves the listener and is caught and logged by emit.
HandlesUpdate(outcome) == outcome.kind = "update"

\* handleMessage(event) on socket s, with the listener's decodeMessage and
\* handleRealtimeUpdate; the outcomes of decodeMessage are kept as a history.
handleMessage(s, buf) ==
  /\ sockets[s] = "OPEN"
  /\ lastEvent' = Event("message")
  /\ wire' = buf
  /\ decodedMsg' = Append(decodedMsg, decodeMessage(buf))
  /\ delivered' = IF HandlesUpdate(decodeMessage(buf))
                    THEN Append(delivered, decodeMessage(buf).message) ELSE delivered
  /\ UNCHANGED <<options, sockets, ws, reconnectTimer, timers, reconnectAttempts, isClosing,
                 messageQueue, sent, env, update, ringVars, decVars, aggVars, poolVars, moreVars>>

\* Well-formed Update messages.
ValidMessages ==
  {EncodeUpdate([symbol |-> <<65>>, timestamp |-> t, data |-> (3 :> t + 1)]) :
     t \in 1..MaxTimestamp}

\* An Update whose string length exceeds the remaining bytes, an Update cut
\* short, an empty buffer, a message of an unknown type and a heartbeat.
UndeliverableMessages ==
  {<<MessageTypeUpdate>> \o Uint32Bytes(200) \o <<65>>,
   SubSeq(EncodeUpdate([symbol |-> <<65>>, timestamp |-> 1, data |-> (3 :> 1)]), 1, 12),
   <<>>,
   <<99, 0>>,
   <<MessageTypeHeartbeat>> \o Uint32Bytes(1)}

\* A client that is connected and then receives messages while its sockets
\* open, fail and reconnect.
InitReceive ==
  InitClient({"valid"}, {p \in DefaultDelayPolicies : p.attempts = Unset})

NextReceive ==
  \/ env.connects < MaxConnects /\ connect /\ UNCHANGED otherVars
  \/ SocketStep(MaxFailures)
  \/ \E s \in 1..Len(sockets), buf \in ValidMessages \cup UndeliverableMessages :
       Len(decodedMsg) < MaxMessages /\ handleMessage(s, buf)

SpecReceive == InitReceive /\ [][NextReceive]_vars

----------------------------------------------------------------------------
(* WorkerPool: tasks are handed to idle workers and settled by the          *)
(* workers' responses.  The pool runs on one event loop: a timer callback   *)
(* or a worker event runs only when no promise continuation is queued.      *)

\* dup is the id of a second copy of the worker's last response that is
\* still queued for the pool, if the worker posted its response twice;
\* dropped counts the worker's responses that the pool has ignored.
IdleWorker == [state |-> "idle", id |-> Unset, type |-> "none", dup |-> Unset, dropped |-> 0]

NewTask == [pc |-> "getWorker", worker |-> 0, id |-> Unset, settles |-> 0, polled |-> FALSE]

\* constructor / initialize: every worker is pushed to workers and available.
InitPool ==
  /\ InitRing /\ NoDecimation /\ NoAggregation /\ NoTransport /\ NoMore
  /\ \E n \in 1..MaxSize :
       /\ workers = [w \in 1..n |-> IdleWorker]
       /\ available = [w \in 1..n |-> w]
  /\ pending = <<>>
  /\ nextId = 0
  /\ tasks = <<>>

\* The continuation of an await is queued: of the await in getWorker
\* ("woken") or of the await in execute ("await").
MicrotaskQueued == \E c \in 1..Len(tasks) : tasks[c].pc \in {"woken", "await"}

\* A timer callback has called resolve() and nothing has run since.
WakeUpQueued == \E c \in 1..Len(tasks) : tasks[c].pc = "woken"

\* return this.available.pop()!, for the execute call c; pop() of an empty
\* array is undefined (worker 0).
PopAvailable(c, call) ==
  /\ available' = IF available = <<>> THEN <<>>
                  ELSE SubSeq(available, 1, Len(available) - 1)
  /\ tasks' = [k \in DOMAIN tasks \cup {c} |->
                 IF k = c THEN [call EXCEPT !.pc = "await",
                                            !.worker = IF available = <<>> THEN 0
                                                       ELSE available[Len(available)]]
                          ELSE tasks[k]]

\* execute(type, data) up to its await: getWorker returns a worker at once
\* when one is available and starts to poll when none is.
execute ==
  /\ IF available # <<>>
       THEN PopAvailable(Len(tasks) + 1, NewTask)
       ELSE /\ tasks' = Append(tasks, [NewTask EXCEPT !.polled = TRUE])
            /\ UNCHANGED available
  /\ UNCHANGED <<workers, pending, nextId, nonPoolVars>>

CanWakeAlways == TRUE

\* if (this.available.length > 0) resolve()
CanWake == available # <<>>

\* The timer callback checkAvailable of the polling call c finds a worker
\* and resolves the promise getWorker awaits (else it sets the timer again).
checkAvailable(c) ==
  /\ tasks[c].pc = "getWorker"
  /\ CanWake
  /\ tasks' = [tasks EXCEPT ![c] = [@ EXCEPT !.pc = "woken"]]
  /\ UNCHANGED <<workers, available, pending, nextId, nonPoolVars>>

\* getWorker after its await, for the woken call c.
getWorkerReturns(c) ==
  /\ tasks[c].pc = "woken"
  /\ PopAvailable(c, tasks[c])
  /\ UNCHANGED <<workers, pending, nextId, nonPoolVars>>

\* execute after its await: the id is taken, the promise is registered in
\* pending and the message is posted to the worker.  postMessage on an
\* undefined worker throws in the promise executor, which rejects the
\* promise; a terminated worker ignores the message.
dispatch(c) ==
  /\ tasks[c].pc = "await"
  /\ nextId' = nextId + 1
  /\ pending' = [k \in DOMAIN pending \cup {nextId} |-> IF k = nextId THEN c ELSE pending[k]]
  /\ workers' = IF tasks[c].worker \in DOMAIN workers /\ workers[tasks[c].worker].state = "idle"
                  THEN [workers EXCEPT ![tasks[c].worker] =
                          [@ EXCEPT !.state = "running", !.id = nextId, !.type = "none"]]
                  ELSE workers
  /\ tasks' = [tasks EXCEPT ![c] =
                 IF tasks[c].worker = 0
                   THEN [@ EXCEPT !.pc = "rejected", !.id = nextId, !.settles = @ + 1]
                   ELSE [@ EXCEPT !.pc = "pending", !.id = nextId]]
  /\ UNCHANGED <<available, nonPoolVars>>

\* The worker's message listener: one response per message, 'success' with
\* the result or 'error' with what the task threw.
workerResponds(w, type) ==
  /\ workers[w].state = "running"
  /\ workers' = [workers EXCEPT ![w] = [@ EXCEPT !.state = "responded", !.type = type]]
  /\ UNCHANGED <<available, pending, nextId, tasks, nonPoolVars>>

\* A worker made by another workerFactory posts its response twice.
workerRespondsTwice(w, type) ==
  /\ workers[w].state = "running"
  /\ workers[w].dup = Unset
  /\ workers' = [workers EXCEPT ![w] = [@ EXCEPT !.state = "responded", !.type = type,
                                                 !.dup = workers[w].id]]
  /\ UNCHANGED <<available, pending, nextId, tasks, nonPoolVars>>

\* An error escapes the worker's listener: the Worker object gets an 'error'
\* event and no response is posted.
workerCrashes(w) ==
  /\ workers[w].state = "running"
  /\ workers' = [workers EXCEPT ![w] = [@ EXCEPT !.state = "crashed"]]
  /\ UNCHANGED <<available, pending, nextId, tasks, nonPoolVars>>

PendingKeep(p, id) == p

\* this.pending.delete(id)
PendingDelete(p, id) == [k \in DOMAIN p \ {id} |-> p[k]]

HasPendingAlways(id) == TRUE

\* const pending = this.pending.get(id); if (!pending) return;
HasPending(id) == id \in DOMAIN pending

\* The body of WorkerPool.handleMessage for a response {id, type} of worker w.
HandleResponse(w, id, type) ==
  IF HasPending(id)
    THEN /\ pending' = PendingDelete(pending, id)
         /\ available' = Append(available, w)
         /\ tasks' = IF id \in DOMAIN pending
                       THEN [tasks EXCEPT ![pending[id]] =
                               [@ EXCEPT !.pc = IF type = "success"
                                                  THEN "resolved" ELSE "rejected",
                                         !.settles = @ + 1]]
                       ELSE tasks
    ELSE UNCHANGED <<pending, available, tasks>>

\* WorkerPool.handleMessage for the response of worker w to its task; a
\* response that was queued when the pool was terminated is still handled.
handleWorkerMessage(w) ==
  /\ workers[w].state \in {"responded", "stale"}
  /\ workers' = [workers EXCEPT ![w] =
                   IF workers[w].state = "stale"
                     THEN [@ EXCEPT !.state = "terminated",
                                    !.dropped = IF HasPending(workers[w].id) THEN @ ELSE @ + 1]
                     ELSE [IdleWorker EXCEPT
                             !.dup = workers[w].dup,
                             !.dropped = IF HasPending(workers[w].id)
                                           THEN workers[w].dropped
                                           ELSE workers[w].dropped + 1]]
  /\ HandleResponse(w, workers[w].id, workers[w].type)
  /\ UNCHANGED <<nextId, nonPoolVars>>

\* WorkerPool.handleMessage for the second copy of a response of worker w.
handleDuplicateMessage(w) ==
  /\ workers[w].dup # Unset
  /\ ~(workers[w].state \in {"responded", "stale"} /\ workers[w].id = workers[w].dup)
  /\ workers' = [workers EXCEPT ![w] =
                   [@ EXCEPT !.dup = Unset,
                             !.dropped = IF HasPending(workers[w].dup) THEN @ ELSE @ + 1]]
  /\ HandleResponse(w, workers[w].dup, "success")
  /\ UNCHANGED <<nextId, nonPoolVars>>

\* WorkerPool.handleError for the 'error' event of worker w: console.error.
handleWorkerError(w) ==
  /\ workers[w].state = "crashed"
  /\ workers' = [workers EXCEPT ![w] = [@ EXCEPT !.state = "logged"]]
  /\ UNCHANGED <<available, pending, nextId, tasks, nonPoolVars>>

\* terminate has been called.
Terminated == \E w \in 1..Len(workers) : workers[w].state \in {"terminated", "stale"}

\* WorkerPool.terminate: every worker is terminated and workers, available
\* and pending are emptied.  A response that is already queued for the pool
\* is still delivered (queued) or is discarded with its worker.  The promise
\* of a call whose entry is cleared is left as it is ("abandoned").
terminate(queued) ==
  /\ ~Terminated
  /\ workers' = [w \in DOMAIN workers |->
                   IF queued /\ workers[w].state \in {"responded", "stale"}
                     THEN [workers[w] EXCEPT !.state = "stale", !.dup = Unset]
                     ELSE [workers[w] EXCEPT !.state = "terminated", !.dup = Unset]]
  /\ available' = <<>>
  /\ pending' = <<>>
  /\ tasks' = [c \in DOMAIN tasks |->
                 IF tasks[c].pc = "pending" THEN [tasks[c] EXCEPT !.pc = "abandoned"]
                 ELSE tasks[c]]
  /\ UNCHANGED <<nextId, nonPoolVars>>

\* The events of the pool's event loop.
PoolStep ==
  \/ \E c \in 1..Len(tasks) : ~MicrotaskQueued /\ checkAvailable(c)
  \/ \E c \in 1..Len(tasks) : getWorkerReturns(c)
  \/ \E c \in 1..Len(tasks) : dispatch(c)
  \/ \E w \in 1..Len(workers), type \in {"success", "error"} : workerResponds(w, type)
  \/ \E w \in 1..Len(workers) : workerCrashes(w)
  \/ \E w \in 1..Len(workers) : ~MicrotaskQueued /\ handleWorkerMessage(w)
  \/ \E w \in 1..Len(workers) : ~MicrotaskQueued /\ handleWorkerError(w)

\* A pool that is used and never terminated, with workers that answer once.
NextPool ==
  \/ ~WakeUpQueued /\ Len(tasks) < MaxTasks /\ execute
  \/ PoolStep

SpecPool == InitPool /\ [][NextPool]_vars

\* A pool that may be terminated and whose workers may answer twice.
NextPoolStale ==
  \/ ~WakeUpQueued /\ Len(tasks) < MaxStaleTasks /\ execute
  \/ PoolStep
  \/ \E w \in 1..Len(workers), type \in {"success", "error"} : workerRespondsTwice(w, type)
  \/ \E w \in 1..Len(workers) : ~MicrotaskQueued /\ handleDuplicateMessage(w)
  \/ \E queued \in BOOLEAN : ~WakeUpQueued /\ terminate(queued)

SpecPoolStale == InitPool /\ [][NextPoolStale]_vars

\* Every queued continuation runs, every worker finishes its task one way or
\* another and every queued event is dispatched.
SpecPoolLive ==
  /\ SpecPoolStale
  /\ WF_vars(\E c \in 1..Len(tasks) : ~MicrotaskQueued /\ checkAvailable(c))
  /\ WF_vars(\E c \in 1..Len(tasks) : getWorkerReturns(c))
  /\ WF_vars(\E c \in 1..Len(tasks) : dispatch(c))
  /\ WF_vars(\E w \in 1..Len(workers) :
               (\E type \in {"success", "error"} : workerResponds(w, type)) \/ workerCrashes(w))
  /\ WF_vars(\E w \in 1..Len(workers) : ~MicrotaskQueued /\ handleWorkerMessage(w))
  /\ WF_vars(\E w \in 1..Len(workers) : ~MicrotaskQueued /\ handleWorkerError(w))

----------------------------------------------------------------------------
(* SharedDataManager: the range check of appendData and waitForData.        *)

CheckSeriesIndexAbove(seriesIndex) ==
  IF seriesIndex > seriesCount THEN "Series index out of bounds" ELSE "none"

\* if (seriesIndex >= this.config.seriesCount) throw new Error(...)
CheckSeriesIndex(seriesIndex) ==
  IF seriesIndex >= seriesCount THEN "Series index out of bounds" ELSE "none"

\* appendData(seriesIndex, data) with any seriesIndex, called and returned in
\* one context.  Past the check, Atomics.load throws a RangeError for an
\* index outside the metadata.
appendDataChecked(seriesIndex, data) ==
  /\ lastCall' = [seriesIndex |-> seriesIndex, count |-> Len(data)]
  /\ IF CheckSeriesIndex(seriesIndex) # "none"
       THEN /\ thrown' = CheckSeriesIndex(seriesIndex)
            /\ UNCHANGED <<dataBuffer, metadata, written, appended, timestamps>>
       ELSE IF seriesIndex * MetaInts + 1 \notin DOMAIN metadata
         THEN /\ thrown' = "RangeError"
              /\ UNCHANGED <<dataBuffer, metadata, written, appended, timestamps>>
         ELSE /\ LET r == AppendResult(dataBuffer, metadata, seriesIndex, data)
                 IN /\ dataBuffer' = r.buf
                    /\ metadata' = r.meta
              /\ thrown' = "none"
              /\ written' = [written EXCEPT ![seriesIndex] = @ \o data]
              /\ appended' = [appended EXCEPT ![seriesIndex] = @ + Len(data)]
              /\ timestamps' = [timestamps EXCEPT ![seriesIndex] = @ \cup TimesOf(data)]
  /\ UNCHANGED <<writers, reader, calls, clears, waiter, decVars, aggVars, wsVars, protoVars,
                 poolVars, bufVars, streamVars, dpVars, msgVars>>

InitBounds == InitRing /\ NoDecimation /\ NoAggregation /\ NoTransport /\ NoPool /\ NoMore

NextBounds ==
  \E s \in 0 .. seriesCount + 1, n \in 0..MaxBatch :
    /\ s \in Series => TotalWritten + n <= MaxWritten
    /\ appendDataChecked(s, [k \in 1..n |-> Candle(IF s \in Series THEN appended[s] + k ELSE k)])

SpecBounds == InitBounds /\ [][NextBounds]_vars

\* checkData of the waitForData call w: the call's next position.  blocking
\* tells whether the calling context may block in Atomics.wait (a worker) or
\* Atomics.wait throws a TypeError (the main thread of a browser), which the
\* promise executor turns into a rejection.
CheckData(w) ==
  IF getDataCount(w.seriesIndex) >= w.minCount THEN [w EXCEPT !.pc = "resolved"]
  ELSE IF w.elapsed > w.timeout
    THEN [w EXCEPT !.pc = "rejected", !.error = "Timeout waiting for data"]
  ELSE IF ~w.blocking THEN [w EXCEPT !.pc = "rejected", !.error = "TypeError"]
  ELSE [w EXCEPT !.pc = "waiting",
                 !.seen = <<appended[w.seriesIndex], clears>>]

\* waitForData(seriesIndex, minCount, timeout) up to its return.
waitForData(seriesIndex, minCount, timeout, shared, blocking) ==
  /\ waiter.pc = "off"
  /\ LET w == [NoWaiter EXCEPT !.seriesIndex = seriesIndex, !.minCount = minCount,
                                !.timeout = timeout, !.shared = shared,
                                !.blocking = blocking,
                                !.seen = <<appended[seriesIndex], clears>>,
                                !.clearsAtCall = clears]
     IN waiter' = IF ~shared THEN [w EXCEPT !.pc = "resolved"] ELSE CheckData(w)
  /\ UNCHANGED <<lastCall, ringVars, decVars, aggVars, wsVars, protoVars, poolVars, bufVars,
                 streamVars, dpVars, msgVars>>

\* Atomics.wait returns 'timed-out' after its slice: setTimeout(checkData, 0).
atomicsWaitTimesOut ==
  /\ waiter.pc = "waiting"
  /\ waiter' = [waiter EXCEPT !.pc = "scheduled", !.elapsed = @ + 1]
  /\ UNCHANGED <<lastCall, ringVars, decVars, aggVars, wsVars, protoVars, poolVars, bufVars,
                 streamVars, dpVars, msgVars>>

\* Atomics.wait returns 'ok' or 'not-equal' after an appendData or a clear
\* of another context: checkData runs at once.
atomicsWaitWoken ==
  /\ waiter.pc = "waiting"
  /\ waiter.seen # <<appended[waiter.seriesIndex], clears>>
  /\ waiter' = CheckData(waiter)
  /\ UNCHANGED <<lastCall, ringVars, decVars, aggVars, wsVars, protoVars, poolVars, bufVars,
                 streamVars, dpVars, msgVars>>

\* The timer callback checkData.
checkData ==
  /\ waiter.pc = "scheduled"
  /\ waiter' = CheckData(waiter)
  /\ UNCHANGED <<lastCall, ringVars, decVars, aggVars, wsVars, protoVars, poolVars, bufVars,
                 streamVars, dpVars, msgVars>>

InitWait == InitBounds

\* One waitForData call beside a context that appends to and clears the
\* series.
NextWait ==
  \/ \E s \in Series, minCount \in 0..MaxMinCount, timeout \in 0..MaxTimeout,
        shared \in BOOLEAN, blocking \in BOOLEAN :
       waitForData(s, minCount, timeout, shared, blocking)
  \/ waiter.elapsed <= MaxTimeout /\ atomicsWaitTimesOut
  \/ atomicsWaitWoken
  \/ checkData
  \/ \E s \in Series, n \in 1..MaxBatch : appendData(s, NextBatch(s, n))
  \/ \E s \in Series : (waiter.pc # "off" => s = waiter.seriesIndex) /\ clear(s)

SpecWait == InitWait /\ [][NextWait]_vars

\* Time passes, woken waits return and timers fire.
SpecWaitLive ==
  /\ SpecWait
  /\ WF_vars(atomicsWaitTimesOut)
  /\ WF_vars(atomicsWaitWoken)
  /\ WF_vars(checkData)

----------------------------------------------------------------------------
(* DataBuffer on its RingBuffer.                                            *)

SliceChunk == 1024

\* RingBuffer.available
RingAvailable(rb) == capacity - rb.size

\* The loop of RingBuffer.write over the bytes of data.
RECURSIVE WriteBytes(_, _)
WriteBytes(rb, bytes) ==
  IF bytes = <<>> THEN rb
  ELSE WriteBytes([rb EXCEPT !.buffer[rb.writeOffset] = Head(bytes),
                             !.writeOffset = (rb.writeOffset + 1) % capacity],
                  Tail(bytes))

\* RingBuffer.write(data): the result and the ring after the call.
RingWrite(rb, data) ==
  IF Len(data) > RingAvailable(rb) THEN [ok |-> FALSE, rb |-> rb]
  ELSE [ok |-> TRUE, rb |-> [WriteBytes(rb, data) EXCEPT !.size = rb.size + Len(data)]]

\* RingBuffer.read(length): null or the chunk, and the ring after the call.
RingRead(rb, length) ==
  IF length > rb.size THEN [ok |-> FALSE, chunk |-> <<>>, rb |-> rb]
  ELSE [ok |-> TRUE,
        chunk |-> [i \in 1..length |-> rb.buffer[(rb.readOffset + i - 1) % capacity]],
        rb |-> [rb EXCEPT !.readOffset = (rb.readOffset + length) % capacity,
                          !.size = rb.size - length]]

\* The while loop of DataBuffer.slice() from offset on: the view and the
\* ring after the loop.
RECURSIVE SliceLoop(_, _, _)
SliceLoop(rb, view, offset) ==
  IF offset >= Len(view) THEN [view |-> view, rb |-> rb]
  ELSE LET r == RingRead(rb, Min(SliceChunk, Len(view) - offset))
       IN IF ~r.ok THEN [view |-> view, rb |-> rb]
          ELSE SliceLoop(r.rb,
                         [i \in 1..Len(view) |->
                            IF i > offset /\ i <= offset + Len(r.chunk)
                              THEN r.chunk[i - offset] ELSE view[i]],
                         offset + Len(r.chunk))

\* DataBuffer.slice() without a range, on a zero-filled buffer of _length bytes.
DataBufferSlice(rb, length) == SliceLoop(rb, [i \in 1..length |-> 0], 0)

\* DataBuffer.append(data)
append(data) ==
  /\ Len(held) + Len(data) <= MaxHeld
  /\ LET w == RingWrite(ringBuffer, data)
     IN IF ~w.ok
          THEN /\ bufThrown' = "Buffer overflow"
               /\ UNCHANGED <<ringBuffer, _length, held, reads>>
          ELSE /\ ringBuffer' = w.rb
               /\ _length' = _length + Len(data)
               /\ bufThrown' = "none"
               /\ held' = held \o data
               /\ reads' = <<>>
  /\ UNCHANGED <<ringVars, decVars, aggVars, wsVars, protoVars, poolVars, sdmVars, streamVars, dpVars, msgVars>>

\* DataBuffer.clear()
clearBuffer ==
  /\ ringBuffer' = [ringBuffer EXCEPT !.writeOffset = 0, !.readOffset = 0, !.size = 0]
  /\ _length' = 0
  /\ bufThrown' = "none"
  /\ held' = <<>>
  /\ reads' = <<>>
  /\ UNCHANGED <<ringVars, decVars, aggVars, wsVars, protoVars, poolVars, sdmVars, streamVars, dpVars, msgVars>>

\* get data(): this.slice()
readData ==
  /\ Len(reads) < MaxReads
  /\ LET r == DataBufferSlice(ringBuffer, _length)
     IN /\ ringBuffer' = r.rb
        /\ reads' = Append(reads, r.view)
  /\ bufThrown' = "none"
  /\ UNCHANGED <<_length, held, ringVars, decVars, aggVars, wsVars, protoVars, poolVars,
                 sdmVars, streamVars, dpVars, msgVars>>

Chunks == UNION {[1..n -> 1..NumBytes] : n \in 1..MaxChunk}

InitBuffer ==
  /\ InitRing /\ NoDecimation /\ NoAggregation /\ NoTransport /\ NoPool /\ NoMore

NextBuffer ==
  \/ \E chunk \in Chunks : append(chunk)
  \/ clearBuffer
  \/ readData

SpecBuffer == InitBuffer /\ [][NextBuffer]_vars

----------------------------------------------------------------------------
(* Receiving with compression: WebSocketClient.handleMessage and decompress. *)
(* Frames are numbered in the order their message events are dispatched.    *)

Compressions == {"unset", "none", "gzip", "zstd"}

\* this.options.compression && this.options.compression !== 'none'
Decompresses == compression \notin {"unset", "none"}

\* decompress(data) waits for a DecompressionStream only for 'gzip'.
AwaitsStream == compression = "gzip"

InitMessages ==
  /\ NewClient([url |-> "valid", reconnect |-> NoReconnect])
  /\ InitRing /\ NoDecimation /\ NoAggregation /\ NoProtocol /\ NoPool
  /\ NoSdm /\ NoBuffer /\ NoStream /\ NoRecursion
  /\ compression \in Compressions
  /\ received = 0
  /\ decompressing = {}
  /\ emitted = <<>>

\* handleMessage(event) for the next frame of an open socket, up to its
\* await of the gzip stream or to its end. Without gzip the function runs
\* to its emit in this task or in the microtasks that follow it, before the
\* next message event is dispatched.
handleMessageEvent(s) ==
  /\ sockets[s] = "OPEN"
  /\ received' = received + 1
  /\ IF Decompresses /\ AwaitsStream
       THEN /\ decompressing' = decompressing \cup {received + 1}
            /\ UNCHANGED <<emitted, lastEvent>>
       ELSE /\ emitted' = Append(emitted, received + 1)
            /\ lastEvent' = Event("message")
            /\ UNCHANGED decompressing
  /\ UNCHANGED <<options, sockets, ws, reconnectTimer, timers, reconnectAttempts, isClosing,
                 messageQueue, sent, env, compression, ringVars, decVars, aggVars, protoVars,
                 poolVars, sdmVars, bufVars, streamVars, dpVars>>

\* new Response(decompressed).arrayBuffer() of frame k resolves and
\* handleMessage runs on to its emit; the streams of different frames
\* finish in no particular order.
decompressResolves(k) ==
  /\ k \in decompressing
  /\ decompressing' = decompressing \ {k}
  /\ emitted' = Append(emitted, k)
  /\ lastEvent' = Event("message")
  /\ UNCHANGED <<options, sockets, ws, reconnectTimer, timers, reconnectAttempts, isClosing,
                 messageQueue, sent, env, compression, received, ringVars, decVars, aggVars,
                 protoVars, poolVars, sdmVars, bufVars, streamVars, dpVars>>

NextMessages ==
  \/ env.connects < MaxConnects /\ connect /\ UNCHANGED otherVars
  \/ \E s \in 1..Len(sockets) : handleOpen(s) /\ UNCHANGED otherVars
  \/ \E s \in 1..Len(sockets) : received < MaxFrames /\ handleMessageEvent(s)
  \/ \E k \in decompressing : decompressResolves(k)

SpecMessages == InitMessages /\ [][NextMessages]_vars

----------------------------------------------------------------------------
(* The recursion of douglasPeucker, one activation at a time.               *)

\* maxDistance > tolerance for a tolerance tolNum / tolDen of either sign:
\* maxDistance is never negative.
ExceedsAnyTolerance(distSq, tolNum, tolDen) ==
  IF tolNum < 0 THEN TRUE ELSE ExceedsTolerance(distSq, tolNum, tolDen)

Tolerances == (0 - MaxTolerance)..MaxTolerance

NewActivation(points) == [points |-> points, pc |-> "enter", maxIndex |-> 0]

InitRecursion ==
  /\ InitRing /\ NoDecimation /\ NoAggregation /\ NoTransport /\ NoPool /\ NoMore

\* A caller invokes douglasPeucker(points, tolerance) with tolerance = tolNum / 2.
callDouglasPeucker(points, tolNum) ==
  /\ ~dpInput.called
  /\ dpInput' = [called |-> TRUE, points |-> points, tolNum |-> tolNum, tolDen |-> 2]
  /\ dpStack' = <<NewActivation(points)>>
  /\ dpThrown' = "none"
  /\ UNCHANGED <<ringVars, decVars, aggVars, wsVars, protoVars, poolVars, sdmVars, bufVars,
                 streamVars, msgVars>>

\* A call of douglasPeucker on top of the stack fails with a stack overflow
\* when the stack is full.
Push(stack, points) ==
  IF Len(stack) >= MaxDepth
    THEN [stack |-> <<>>, thrown |-> "RangeError"]
    ELSE [stack |-> Append(stack, NewActivation(points)), thrown |-> "none"]

\* The activation on top of the stack runs from its entry to its first
\* recursive call or to its return.
enterCall ==
  /\ dpStack # <<>>
  /\ LET top == Len(dpStack)
         points == dpStack[top].points
         n == Len(points)
     IN /\ dpStack[top].pc = "enter"
        /\ IF n <= 2
             THEN /\ dpStack' = [dpStack EXCEPT ![top].pc = "return"]
                  /\ dpThrown' = dpThrown
             ELSE LET maxIndex == MaxDistanceIndex(points)
                      maxDistance ==
                        PerpendicularDistanceSq(points[maxIndex], points[1], points[n])
                  IN IF ExceedsAnyTolerance(maxDistance, dpInput.tolNum, dpInput.tolDen)
                       THEN LET p == Push([dpStack EXCEPT ![top].pc = "left",
                                                          ![top].maxIndex = maxIndex],
                                          SubSeq(points, 1, maxIndex))
                            IN /\ dpStack' = p.stack
                               /\ dpThrown' = p.thrown
                       ELSE /\ dpStack' = [dpStack EXCEPT ![top].pc = "return"]
                            /\ dpThrown' = dpThrown
  /\ UNCHANGED <<dpInput, ringVars, decVars, aggVars, wsVars, protoVars, poolVars, sdmVars,
                 bufVars, streamVars, msgVars>>

\* The activation on top of the stack returns: its caller goes on with the
\* right half, or with its own return.
returnCall ==
  /\ dpStack # <<>>
  /\ LET top == Len(dpStack)
         rest == SubSeq(dpStack, 1, top - 1)
     IN /\ dpStack[top].pc = "return"
        /\ IF rest = <<>>
             THEN /\ dpStack' = <<>>
                  /\ dpThrown' = dpThrown
             ELSE LET caller == rest[top - 1]
                  IN IF caller.pc = "left"
                       THEN LET p == Push([rest EXCEPT ![top - 1].pc = "right"],
                                          SubSeq(caller.points, caller.maxIndex,
                                                 Len(caller.points)))
                            IN /\ dpStack' = p.stack
                               /\ dpThrown' = p.thrown
                       ELSE /\ dpStack' = [rest EXCEPT ![top - 1].pc = "return"]
                            /\ dpThrown' = dpThrown
  /\ UNCHANGED <<dpInput, ringVars, decVars, aggVars, wsVars, protoVars, poolVars, sdmVars,
                 bufVars, streamVars, msgVars>>

NextRecursion ==
  \/ \E points \in SeqsUpTo(PointSet, MaxPoints), tolNum \in Tolerances :
       callDouglasPeucker(points, tolNum)
  \/ enterCall
  \/ returnCall

SpecRecursion == InitRecursion /\ [][NextRecursion]_vars

----------------------------------------------------------------------------
(* StreamingDataSource: the streaming loop over a ReadableStream or an      *)
(* async iterable, and stop().                                              *)

\* encodeBatch(batch): float32 time and float32 value of each point.
RECURSIVE encodeBatch(_)
encodeBatch(batch) ==
  IF batch = <<>> THEN <<>>
  ELSE Float32Bytes(Head(batch).time) \o Float32Bytes(Head(batch).value)
         \o encodeBatch(Tail(batch))

\* What a source yields: ArrayBuffers, or arrays of points.
StreamChunks == {<<1>>, <<1, 2>>, <<2, 1, 2, 1, 2>>}

StreamBatches == {<<>>, <<[time |-> 1, value |-> 2]>>}

Sources ==
  {[kind |-> "ReadableStream", mode |-> m, pc |-> "idle", chunks |-> p, batches |-> <<>>] :
     m \in {"append", "replace"}, p \in UNION {[1..n -> StreamChunks] : n \in 0..MaxBatches}}
  \cup
  {[kind |-> "AsyncIterable", mode |-> m, pc |-> "idle", chunks |-> <<>>, batches |-> p] :
     m \in {"append", "replace"}, p \in UNION {[1..n -> StreamBatches] : n \in 0..MaxBatches}}

\* new StreamingDataSource(options)
InitStream ==
  /\ InitRing /\ NoDecimation /\ NoAggregation /\ NoTransport /\ NoPool /\ NoSdm /\ NoBuffer
  /\ NoRecursion /\ NoFrames
  /\ isStreaming = FALSE
  /\ stream \in Sources
  /\ events = <<>>
  /\ stopMark = NoMark

DataEvents == Cardinality({k \in 1..Len(events) : events[k] = "data"})

\* start() up to the first await of the streaming loop.
start ==
  /\ ~isStreaming
  /\ stream.pc = "idle"
  /\ isStreaming' = TRUE
  /\ stream' = [stream EXCEPT !.pc = "reading"]
  /\ stopMark' = NoMark
  /\ UNCHANGED <<events, ringVars, decVars, aggVars, wsVars, protoVars, poolVars, sdmVars,
                 bufVars, dpVars, msgVars>>

\* stop()
stop ==
  /\ isStreaming
  /\ isStreaming' = FALSE
  /\ stopMark' = [set |-> TRUE, data |-> DataEvents, held |-> held]
  /\ UNCHANGED <<stream, events, ringVars, decVars, aggVars, wsVars, protoVars, poolVars,
                 sdmVars, bufVars, dpVars, msgVars>>

\* processData(bytes) inside the loop's try block: 'replace' clears the
\* buffer, append may throw 'Buffer overflow' (then 'error' is emitted and
\* the loop ends), else 'data' is emitted and the loop goes on while
\* continues holds; rest is what the source has still to yield.
processData(bytes, continues, rest) ==
  LET rb0 == IF stream.mode = "replace"
               THEN [ringBuffer EXCEPT !.writeOffset = 0, !.readOffset = 0, !.size = 0]
               ELSE ringBuffer
      held0 == IF stream.mode = "replace" THEN <<>> ELSE held
      length0 == IF stream.mode = "replace" THEN 0 ELSE _length
      w == RingWrite(rb0, bytes)
  IN /\ ringBuffer' = w.rb
     /\ reads' = <<>>
     /\ IF w.ok
          THEN /\ _length' = length0 + Len(bytes)
               /\ held' = held0 \o bytes
               /\ bufThrown' = "none"
               /\ events' = Append(events, "data")
               /\ stream' = [rest EXCEPT !.pc = IF continues THEN "reading" ELSE "ended"]
          ELSE /\ _length' = length0
               /\ held' = held0
               /\ bufThrown' = "Buffer overflow"
               /\ events' = Append(events, "error")
               /\ stream' = [rest EXCEPT !.pc = "ended"]

\* The loop 'ends': 'end' is emitted.
emitEnd(rest) ==
  /\ events' = Append(events, "end")
  /\ stream' = [rest EXCEPT !.pc = "ended"]
  /\ UNCHANGED bufVars

\* streamFromReadableStream: the awaited reader.read() resolves; the loop
\* runs to its next await.
readResolves ==
  /\ stream.kind = "ReadableStream"
  /\ stream.pc = "reading"
  /\ IF stream.chunks = <<>>
       THEN emitEnd(stream)
       ELSE processData(Head(stream.chunks), isStreaming,
                        [stream EXCEPT !.chunks = Tail(@)])
  /\ UNCHANGED <<isStreaming, stopMark, ringVars, decVars, aggVars, wsVars, protoVars,
                 poolVars, sdmVars, dpVars, msgVars>>

\* streamFromAsyncIterable: the awaited next() of the iterator resolves;
\* the loop runs to its next await.
nextResolves ==
  /\ stream.kind = "AsyncIterable"
  /\ stream.pc = "reading"
  /\ IF stream.batches = <<>>
       THEN emitEnd(stream)
       ELSE IF ~isStreaming
         THEN emitEnd([stream EXCEPT !.batches = Tail(@)])
         ELSE processData(encodeBatch(Head(stream.batches)), TRUE,
                          [stream EXCEPT !.batches = Tail(@)])
  /\ UNCHANGED <<isStreaming, stopMark, ringVars, decVars, aggVars, wsVars, protoVars,
                 poolVars, sdmVars, dpVars, msgVars>>

NextStream ==
  \/ start
  \/ stop
  \/ readResolves
  \/ nextResolves

SpecStream == InitStream /\ [][NextStream]_vars

----------------------------------------------------------------------------
(* Properties of the streaming transport *)

\* A step in which a reconnect is scheduled, and the timer it sets.
NewTimers == timers' \ timers

\* A step in which a socket opens.
OpenStep == \E s \in 1..Len(sockets) : sockets[s] = "CONNECTING" /\ sockets'[s] = "OPEN"

\* A step in which the close event of a socket is handled.
CloseEventStep == \E s \in 1..Len(sockets) : sockets[s] # "CLOSED" /\ sockets'[s] = "CLOSED"

ConnectCall == env'.connects # env.connects

CloseCall == env'.closes # env.closes

ExpectedDelays == <<1000, 2000, 4000, 8000, 16000, 30000, 30000>>

\* C11: the delay announced for a reconnect is min(base * 2^n, maxDelay)
\* under exponential and min(base * (n + 1), maxDelay) under linear backoff,
\* n being the number of reconnects scheduled before it since the last
\* open; with base 1000 and maxDelay 30000 the exponential delays are
\* 1000, 2000, 4000, 8000, 16000, 30000, 30000.
C11_BackoffDelay ==
  lastEvent.type = "reconnecting" =>
    LET n == env.scheduled - 1
        policy == options.reconnect
        base == IF policy.delay = Unset THEN 1000 ELSE policy.delay
        maxDelay == IF policy.maxDelay = Unset THEN 30000 ELSE policy.maxDelay
    IN /\ policy.backoff = "exponential" =>
            lastEvent.delay = IF base * (2 ^ n) < maxDelay THEN base * (2 ^ n) ELSE maxDelay
       /\ policy.backoff = "linear" =>
            lastEvent.delay = IF base * (n + 1) < maxDelay THEN base * (n + 1) ELSE maxDelay
       /\ (policy.backoff = "exponential" /\ base = 1000 /\ maxDelay = 30000
           /\ n < Len(ExpectedDelays)) => lastEvent.delay = ExpectedDelays[n + 1]

\* The seventh reconnect in a row has been scheduled under exponential
\* backoff, at the capped delay.
C11_Witness ==
  /\ lastEvent.type = "reconnecting"
  /\ options.reconnect.backoff = "exponential"
  /\ env.scheduled = Len(ExpectedDelays)
  /\ lastEvent.delay = 30000

\* C14: the attempt counter goes up by exactly one whenever a reconnect is
\* scheduled, is 0 after every open, and changes in no other step: connect,
\* close, an error event and a close event that schedules nothing leave it.
C14_AttemptCounter ==
  [][/\ NewTimers # {} => reconnectAttempts' = reconnectAttempts + 1
     /\ OpenStep => reconnectAttempts' = 0
     /\ reconnectAttempts' # reconnectAttempts => (NewTimers # {} \/ OpenStep)]_vars

\* A socket has opened after two reconnects in a row, and the counter is 0.
C14_Witness ==
  /\ lastEvent.type = "open"
  /\ reconnectAttempts = 0
  /\ env.failures >= 2
  /\ Len(sockets) >= 3
  /\ \A s \in 1..(Len(sockets) - 1) : sockets[s] = "CLOSED"

\* C12: close() cancels the pending reconnect timer and empties the queue,
\* and from then on no socket is created and no timer is set until connect()
\* is called.
C12_NoReconnectAfterClose ==
  [][/\ CloseCall => (timers' = {} /\ reconnectTimer' = 0 /\ messageQueue' = <<>>)
     /\ (isClosing /\ ~ConnectCall) => (Len(sockets') = Len(sockets) /\ NewTimers = {})]_vars

IdsOf(frames) == [k \in 1..Len(frames) |-> frames[k].id]

\* C13: send() while not open appends the message to the queue, and the open
\* of a socket sends the whole queue, once and in order, leaving it empty, so
\* that later messages follow the queued ones.
C13_QueueFlushedOnOpen ==
  [][/\ (env'.sends # env.sends /\ ~isConnected) =>
          (IdsOf(messageQueue') = Append(IdsOf(messageQueue), env'.sends) /\ sent' = sent)
     /\ OpenStep =>
          (messageQueue' = <<>> /\ IdsOf(sent') = IdsOf(sent) \o IdsOf(messageQueue))]_vars

\* C15: under a policy with attempts = N at most N reconnects are scheduled
\* between two opens, and a close event handled with the budget used up, or
\* without a policy, emits 'close' and leaves no socket and no pending timer.
C15_AttemptBudget ==
  /\ [](options.reconnect.attempts # Unset => env.scheduled <= options.reconnect.attempts)
  /\ [][(CloseEventStep /\ (~options.reconnect.present
                            \/ (options.reconnect.attempts # Unset
                                /\ reconnectAttempts >= options.reconnect.attempts))) =>
          (lastEvent'.type = "close" /\ ws' = 0 /\ timers' = {} /\ reconnectTimer' = 0)]_vars

\* The connection was lost without close() having been called, under a
\* policy without an attempt budget, after n refused or dropped connections.
LostAfter(n) ==
  /\ ws = 0 /\ sockets # <<>>
  /\ ~isClosing
  /\ options.reconnect.present /\ options.reconnect.attempts = Unset
  /\ env.failures = n

\* C16: a connection lost without close(), under a policy without an attempt
\* budget, is open again later unless the network refuses or drops a further
\* connection or close() is called, and every reconnect is announced by a
\* 'reconnecting' event with the attempt number and the delay of its timer.
C16_SelfHeals ==
  /\ \A n \in 0..MaxFailures :
       LostAfter(n) ~> (isConnected \/ isClosing \/ env.failures > n)
  /\ [][\A t \in NewTimers :
          lastEvent' = [type |-> "reconnecting", attempt |-> reconnectAttempts',
                        delay |-> t.delay]]_vars

\* The network has failed as often as it does, close() was never called, and
\* the transport is open again on a socket that a reconnect timer created.
C16_Witness ==
  /\ env.failures = MaxFailures
  /\ env.closes = 0
  /\ options.reconnect.attempts = Unset
  /\ isConnected
  /\ ws > env.connects

----------------------------------------------------------------------------
(* Properties of the wire protocol *)

Decoded == decodedMsg[1]

\* C17: decoding an encoded Update gives back its symbol, timestamp and data,
\* with exactly the encoded fields and their values, and the decoder ends at
\* the end of the message.
C17_UpdateRoundTrip ==
  decodedMsg # <<>> =>
    /\ Decoded.kind = "update"
    /\ Decoded.message = update
    /\ Decoded.offset = Len(wire)

\* C17 as amended: decoding an encoded Update gives back the timestamp, the
\* symbol without a leading U+FEFF, and exactly the encoded fields, each with
\* the float32 nearest to its value (the value itself up to 2^24), and the
\* decoder ends at the end of the message.
C17_UpdateRoundTripFloat32 ==
  decodedMsg # <<>> =>
    /\ Decoded.kind = "update"
    /\ Decoded.message.timestamp = update.timestamp
    /\ Decoded.message.symbol =
         IF update.symbol # <<>> /\ update.symbol[1] = 65279
           THEN Tail(update.symbol) ELSE update.symbol
    /\ DOMAIN Decoded.message.data = DOMAIN update.data
    /\ \A b \in DOMAIN update.data :
         LET v == update.data[b]
             r == Decoded.message.data[b]
         IN /\ v <= 16777216 => r = v
            /\ (v > 16777216 /\ v < 33554432) => (r % 2 = 0 /\ r - v \in {0 - 1, 0, 1})
            /\ (v > 16777216 /\ v % 4 = 1) => r = v - 1
            /\ (v > 16777216 /\ v % 4 = 3) => r = v + 1
    /\ Decoded.offset = Len(wire)

\* An Update with all nine fields, values that float32 cannot hold and a
\* symbol that is kept has been decoded.
C17_Witness ==
  /\ decodedMsg # <<>>
  /\ DOMAIN update.data = 0..8
  /\ update.data[0] > 16777216
  /\ update.symbol # <<>> /\ Decoded.message.symbol = update.symbol

\* A step in which a message is received.
MessageStep == Len(decodedMsg') = Len(decodedMsg) + 1

\* C18: a received message that cannot be decoded, or that is no Update, is
\* dropped: the sockets, the reconnect timer and counter, the closing flag
\* and the outbound queue stay as they are and nothing is delivered; a
\* well-formed Update is delivered whatever was received before it.
C18_UndecodableDropped ==
  [][MessageStep =>
       /\ UNCHANGED <<sockets, ws, reconnectTimer, timers, reconnectAttempts, isClosing,
                      messageQueue, sent>>
       /\ wire' \in UndeliverableMessages => delivered' = delivered
       /\ wire' \in ValidMessages =>
            /\ Len(delivered') = Len(delivered) + 1
            /\ delivered'[Len(delivered')].symbol = <<65>>
            /\ wire' = EncodeUpdate(delivered'[Len(delivered')])]_vars

\* A well-formed Update has been delivered on an open connection right after
\* a message that made the decoder throw.
C18_Witness ==
  /\ Len(decodedMsg) = 2
  /\ decodedMsg[1].kind = "throw"
  /\ decodedMsg[2].kind = "update"
  /\ Len(delivered) = 1
  /\ isConnected

----------------------------------------------------------------------------
(* Properties of the worker pool *)

\* The response of worker w is handled.
ResponseStep(w) ==
  \/ workers[w].state = "responded" /\ workers'[w].state = "idle"
  \/ workers[w].state = "stale" /\ workers'[w].state = "terminated"

\* The 'error' event of worker w is handled.
ErrorEventStep(w) == workers[w].state = "crashed" /\ workers'[w].state = "logged"

Settled(c) == tasks[c].pc \in {"resolved", "rejected"}

\* C19: the response to a pending task settles the promise of the call that
\* submitted it, once and with the response's outcome, leaves every other
\* call alone, removes the pending entry and appends the responding worker
\* to the available workers; no promise is settled twice, no worker is
\* available twice or while it runs a task, and pending holds exactly the
\* posted, unsettled tasks.
C19_ResponseSettlesOnce ==
  /\ [](/\ \A c \in 1..Len(tasks) :
             /\ tasks[c].settles = (IF Settled(c) THEN 1 ELSE 0)
             /\ (tasks[c].pc = "pending") <=>
                  (tasks[c].id \in DOMAIN pending /\ pending[tasks[c].id] = c)
        /\ \A i, j \in 1..Len(available) : available[i] = available[j] => i = j
        /\ \A k \in 1..Len(available) : workers[available[k]].state = "idle")
  /\ [][\A w \in 1..Len(workers) :
          (ResponseStep(w) /\ workers[w].id \in DOMAIN pending) =>
            LET id == workers[w].id
                c == pending[id]
            IN /\ tasks'[c].settles = tasks[c].settles + 1
               /\ tasks'[c].pc = (IF workers[w].type = "success"
                                    THEN "resolved" ELSE "rejected")
               /\ \A k \in 1..Len(tasks) : k # c => tasks'[k] = tasks[k]
               /\ DOMAIN pending' = DOMAIN pending \ {id}
               /\ \A k \in DOMAIN pending' : pending'[k] = pending[k]
               /\ available' = Append(available, w)]_vars

\* A later task has been settled while an earlier one is still pending, and
\* its worker is available again.
C19_Witness ==
  \E c, k \in 1..Len(tasks) :
    /\ c < k
    /\ tasks[c].pc = "pending"
    /\ Settled(k)
    /\ \E i \in 1..Len(available) : available[i] = tasks[k].worker

\* C20: when a worker fails, by an 'error' response or by an 'error' event
\* of the Worker, the promise of the task that runs on it is rejected and no
\* other call changes.
C20_FailureRejectsTask ==
  [][\A w \in 1..Len(workers) :
       ((ResponseStep(w) /\ workers[w].state = "responded" /\ workers[w].type = "error") \/ ErrorEventStep(w)) =>
         \A c \in 1..Len(tasks) :
           IF tasks[c].id = workers[w].id
             THEN tasks'[c].pc = "rejected"
             ELSE tasks'[c] = tasks[c]]_vars

\* C20, for the failure the worker reports itself: an 'error' response
\* rejects the promise of its task and of no other.
C20_ErrorResponseRejectsTask ==
  [][\A w \in 1..Len(workers) :
       (ResponseStep(w) /\ workers[w].state = "responded" /\ workers[w].type = "error") =>
         \A c \in 1..Len(tasks) :
           IF tasks[c].id = workers[w].id
             THEN tasks'[c].pc = "rejected"
             ELSE tasks'[c] = tasks[c]]_vars

\* C20: a worker that is not available is working on a pending task or has
\* been taken by a call that is about to post one, so the pool keeps
\* dispatching.
C20_PoolKeepsDispatching ==
  \A w \in 1..Len(workers) :
    (\E i \in 1..Len(available) : available[i] = w)
    \/ workers[w].state \in {"running", "responded"}
    \/ \E c \in 1..Len(tasks) : tasks[c].pc = "await" /\ tasks[c].worker = w

\* The second copy of a response of worker w is handled.
DuplicateStep(w) == workers[w].dup # Unset /\ workers'[w].dup = Unset /\ ~Terminated'

\* C21: a response whose id is not in pending, because the pool was
\* terminated after it was posted or because it is the second copy of a
\* response, changes neither pending nor the available workers nor any call.
C21_UnknownIdDropped ==
  [][\A w \in 1..Len(workers) :
       ((ResponseStep(w) /\ workers[w].id \notin DOMAIN pending)
          \/ (DuplicateStep(w) /\ workers[w].dup \notin DOMAIN pending))
         => UNCHANGED <<pending, available, tasks>>]_vars

\* The second copy of a response has been dropped, and its worker is
\* available once; and a response that was queued when the pool was
\* terminated has been dropped.
C21_Witness ==
  \E w \in 1..Len(workers) :
    /\ workers[w].dropped > 0
    /\ ~Terminated
    /\ Cardinality({i \in 1..Len(available) : available[i] = w}) = 1

\* C22: every task that has been posted is settled in the end.
C22_TaskSettles ==
  \A c \in 1..MaxStaleTasks :
    (c <= Len(tasks) /\ tasks[c].pc = "pending")
      ~> (c <= Len(tasks) /\ tasks[c].pc \in {"resolved", "rejected"})

\* A call holds a worker: it has taken one and its task is not settled.
InFlight(c) == tasks[c].pc \in {"await", "pending"}

\* The call c leaves getWorker with a worker.
TakeStep(c) ==
  /\ c \in DOMAIN tasks'
  /\ tasks'[c].pc = "await"
  /\ c \in DOMAIN tasks => tasks[c].pc \in {"getWorker", "woken"}

\* C23: getWorker returns a worker that was available and is idle, never
\* undefined, and no worker is held by two calls at a time.
C23_OnlyIdleWorkers ==
  /\ [](/\ \A c \in 1..Len(tasks) :
             tasks[c].pc \notin {"getWorker", "woken"} => tasks[c].worker \in 1..Len(workers)
        /\ \A c, k \in 1..Len(tasks) :
             (c # k /\ InFlight(c) /\ InFlight(k)) => tasks[c].worker # tasks[k].worker
        /\ \A c \in 1..Len(tasks) :
             (tasks[c].pc = "pending" /\ ~Terminated) =>
               /\ workers[tasks[c].worker].id = tasks[c].id
               /\ workers[tasks[c].worker].state \in {"running", "responded", "crashed", "logged"})
  /\ [][\A c \in 1..MaxTasks :
          TakeStep(c) =>
            /\ available # <<>>
            /\ tasks'[c].worker = available[Len(available)]
            /\ workers[tasks'[c].worker].state = "idle"
            /\ available' = SubSeq(available, 1, Len(available) - 1)]_vars

\* A call that had to wait has taken the one worker that was released while
\* another call is still waiting.
C23_Witness ==
  \E c, k \in 1..Len(tasks) :
    /\ c # k
    /\ tasks[c].polled /\ tasks[c].pc = "await"
    /\ tasks[k].polled /\ tasks[k].pc = "getWorker"
    /\ available = <<>>

----------------------------------------------------------------------------
(* Properties of the ring channel's range check and of waitForData *)

\* C24: an appendData call with seriesIndex >= seriesCount throws the
\* out-of-bounds error and leaves the payload and the metadata (writeOffset
\* and count of every series) as they were.
C24_OutOfRangeRejected ==
  /\ [](lastCall.seriesIndex >= seriesCount => thrown = "Series index out of bounds")
  /\ [][lastCall'.seriesIndex >= seriesCount => UNCHANGED <<dataBuffer, metadata>>]_vars

\* An out-of-range call with a non-empty batch has failed on a channel that
\* holds data.
C24_Witness ==
  /\ lastCall.seriesIndex >= seriesCount
  /\ lastCall.count > 0
  /\ thrown = "Series index out of bounds"
  /\ \E s \in Series : getDataCount(s) > 0

\* C25: a waitForData call that has resolved found the count at or above
\* minCount, or the series has been cleared since the call.
C25_ResolvesOnDataOrClear ==
  waiter.pc = "resolved" =>
    \/ getDataCount(waiter.seriesIndex) >= waiter.minCount
    \/ clears > waiter.clearsAtCall

\* C25: a clear of the series ends the wait.
C25_ClearEndsWait ==
  (waiter.pc = "waiting" /\ clears > waiter.clearsAtCall)
    ~> (waiter.pc \in {"resolved", "rejected"} /\ waiter.error # "Timeout waiting for data")

----------------------------------------------------------------------------
(* Properties of the DataBuffer *)

\* C30: every read of data since the last append or clear returned the
\* bytes appended since the last clear, in append order, and length is the
\* number of bytes the ring buffer holds.
C30_ReadLeavesBufferUnchanged ==
  /\ \A k \in 1..Len(reads) : reads[k] = held
  /\ _length = ringBuffer.size

\* C30: the first read of data after an append returns the bytes appended
\* since the last clear, in append order, if data was not read before.
C30_FirstReadReturnsHeld ==
  (Len(reads) >= 1 /\ ringBuffer.size + Len(reads[1]) = Len(held)) => reads[1] = held

----------------------------------------------------------------------------
(* Properties of the streaming data source *)

\* C26: once stop() has returned, no further 'data' event is emitted and
\* the buffer is not appended to.
C26_StopHaltsBatches ==
  stopMark.set => (DataEvents = stopMark.data /\ held = stopMark.held)

\* C26, for an async iterable: once stop() has returned, no further 'data'
\* event is emitted and the buffer is not appended to.
C26_StopHaltsIterable ==
  (stopMark.set /\ stream.kind = "AsyncIterable") =>
    (DataEvents = stopMark.data /\ held = stopMark.held)

----------------------------------------------------------------------------
(* Properties of the recursion of douglasPeucker *)

ShorterSegments ==
  /\ dpThrown = "none"
  /\ \A k \in 1..(Len(dpStack) - 1) :
       /\ Len(dpStack[k].points) > 2
       /\ Len(dpStack[k + 1].points) < Len(dpStack[k].points)

\* C27: every recursive call of douglasPeucker is made on a segment that is
\* strictly shorter than its caller's, only segments of more than 2 points
\* recurse, and the call stack never overflows.
C27_CallsOnShorterSegments == ShorterSegments

\* C27, for a tolerance that is not negative: every recursive call of
\* douglasPeucker is made on a strictly shorter segment.
C27_ShorterWhenNotNegative == dpInput.tolNum >= 0 => ShorterSegments

----------------------------------------------------------------------------
(* Properties of the connections of the WebSocketClient *)

LiveSockets == {s \in 1..Len(sockets) : sockets[s] \in {"CONNECTING", "OPEN"}}

\* C28: at any time at most one WebSocket of the client is connecting or
\* open.
C28_SingleConnection == Cardinality(LiveSockets) <= 1

\* C28, second half: the close event of a socket that is not the client's
\* current one leaves this.ws and the reconnect schedule as they are.
C28_StaleCloseIgnored ==
  [][\A s \in 1..Len(sockets) :
       (sockets[s] # "CLOSED" /\ sockets'[s] = "CLOSED" /\ ws # s /\ ws # 0) =>
         (ws' = ws /\ timers' = timers /\ reconnectAttempts' = reconnectAttempts)]_vars

----------------------------------------------------------------------------
(* Properties of the order of the messages *)

InReceiveOrder == \A i \in 1..Len(emitted), j \in 1..Len(emitted) : i < j => emitted[i] < emitted[j]

\* C29: the 'message' events are emitted in the order in which the frames
\* were received, with and without compression.
C29_MessagesInOrder == InReceiveOrder

\* C29, without gzip: the 'message' events are emitted in the order in
\* which the frames were received, and each frame is emitted once it has
\* been received.
C29_InOrderWithoutGzip ==
  compression # "gzip" => (InReceiveOrder /\ Len(emitted) = received)

====
